---- MODULE Spec2Model ----
(***************************************************************************)
(* A model of the bestDeal catalog scraper.                                *)
(*                                                                         *)
(* Three parts of the repository are modelled:                             *)
(*   - the URL templater (extractPageNumber, buildPageURL), as operators   *)
(*     over URLs, exercised by SpecURL;                                    *)
(*   - the config-driven run ScrapeAndDownloadFromConfig, a sequential     *)
(*     loop over the page range, exercised by SpecConfig;                  *)
(*   - the store scraper scrapeCatalogPages + downloadCatalogImages, a     *)
(*     sequential page loop followed by a pool of download goroutines,     *)
(*     exercised by Spec.                                                  *)
(*                                                                         *)
(* A URL is a sequence of tokens: the token "/page/" stands for that       *)
(* literal text, a digit token for one decimal digit, "x" for any other    *)
(* text.  An image URL is a natural number: image p is the image that the  *)
(* viewer shows for page p.                                                *)
(***************************************************************************)
EXTENDS Integers, Sequences, FiniteSets, TLC

\* ------------------------------------------------------------------ bounds

\* Longest URL (in tokens) given to the URL templater.
MaxURLLen == 4
\* Largest page digit used in the first_page / last_page URLs of a config.
MaxPageDigit == 5

\* --------------------------------------------------------------- URL model

PageTok == "/page/"

DigitChars == <<"0", "1", "2", "3", "4", "5", "6", "7", "8", "9">>

Digits == {DigitChars[i] : i \in 1..10}

DigitVal(c) == (CHOOSE i \in 1..10 : DigitChars[i] = c) - 1

\* The tokens URLs are built from when the templater's inputs are enumerated.
Alphabet == {PageTok, "x", "0", "1", "2"}

URLs == UNION {[1..n -> Alphabet] : n \in 0..MaxURLLen}

\* strconv.Atoi on a string of decimal digits.
RECURSIVE Atoi(_)
Atoi(ds) ==
    IF ds = <<>> THEN 0
    ELSE 10 * Atoi(SubSeq(ds, 1, Len(ds) - 1)) + DigitVal(ds[Len(ds)])

\* fmt.Sprintf("%d", n) for n >= 0.
RECURSIVE Itoa(_)
Itoa(n) ==
    IF n < 10 THEN <<DigitChars[n + 1]>>
    ELSE Itoa(n \div 10) \o <<DigitChars[(n % 10) + 1]>>

\* The regular expression /page/\d+ matches at position i of u.
MatchAt(u, i) ==
    /\ i \in 1..Len(u)
    /\ u[i] = PageTok
    /\ i + 1 <= Len(u)
    /\ u[i + 1] \in Digits

\* Last position of the greedy digit run \d+ that starts at position j.
RECURSIVE DigitRunEnd(_, _)
DigitRunEnd(u, j) ==
    IF j + 1 <= Len(u) /\ u[j + 1] \in Digits THEN DigitRunEnd(u, j + 1) ELSE j

\* extractPageNumber: the first match of /page/(\d+), its digits as an int.
extractPageNumber(pageURL) ==
    LET hits == {i \in 1..Len(pageURL) : MatchAt(pageURL, i)}
    IN  IF hits = {} THEN [ok |-> FALSE, val |-> 0]
        ELSE LET i == CHOOSE h \in hits : \A g \in hits : h <= g
                 e == DigitRunEnd(pageURL, i + 1)
             IN  [ok |-> TRUE, val |-> Atoi(SubSeq(pageURL, i + 1, e))]

\* regexp.ReplaceAllString over the non-overlapping matches from position i on.
RECURSIVE ReplaceAllFrom(_, _, _)
ReplaceAllFrom(t, i, repl) ==
    IF i > Len(t) THEN <<>>
    ELSE IF MatchAt(t, i)
         THEN repl \o ReplaceAllFrom(t, DigitRunEnd(t, i + 1) + 1, repl)
         ELSE <<t[i]>> \o ReplaceAllFrom(t, i + 1, repl)

\* buildPageURL: every match of /page/\d+ replaced by /page/<pageNum>.
buildPageURL(templateURL, pageNum) ==
    ReplaceAllFrom(templateURL, 1, <<PageTok>> \o Itoa(pageNum))

\* fmt.Sprintf("%0<width>d", n): the decimal digits of n, zero-padded on the left.
RECURSIVE ZeroPad(_, _)
ZeroPad(ds, width) ==
    IF Len(ds) >= width THEN ds ELSE ZeroPad(<<"0">> \o ds, width)

\* The elements of a sequence.
Range(f) == {f[k] : k \in DOMAIN f}

\* ------------------------------------------------------------------- state

VARIABLES
    \* URL templater under test (SpecURL)
    tpc,            \* "input" | "extracted" | "built" | "failed"
    templateURL,    \* the URL given to extractPageNumber and buildPageURL
    extracted,      \* the page number extractPageNumber returned
    built,          \* the URL buildPageURL returned
    \* ScrapeAndDownloadFromConfig (SpecConfig)
    config,         \* ScraperConfig: CoverImage, FirstPage, LastPage
    cpc,            \* position of the run in the function body
    runErr,         \* "running" | "nil" | "error": what the run returned
    deadline,       \* the context's 300 s timeout has fired
    inflight,       \* number of chromedp.Run calls that have not returned
    coverStatus,    \* "none" | "extractFailed" | "downloadFailed" | "ok"
    firstPageNum,
    lastPageNum,
    pageNum,        \* the loop variable
    imageURL,       \* image URL resolved for the current page (0: none)
    lastResolved,   \* image URL resolved for the latest page that had one
    requested,      \* history: page index of every page URL navigated to
    outcomes,       \* history: per requested page "err"|"empty"|"dlfail"|"ok"
    resolved,       \* history: per requested page the image URL (0: none)
    cfiles,         \* file name -> image stored, for the files the run wrote
    lateStarts,     \* history: the pages whose render was called after the deadline
    pauses,         \* history: the requests after which time.Sleep was taken
    \* scrapeCatalogPages + downloadCatalogImages (Spec)
    MaxPages,       \* config.MaxPages
    phase,          \* position of the catalog's processing
    page,           \* the page loop's variable
    emptyCount,
    seen,           \* set of image URLs already met
    PageImages,     \* catalog.PageImages
    CoverImage,     \* catalog.CoverImage (0: "")
    visits,         \* history: per page navigated to, [page, kind, url]
    srcPage,        \* history: per entry of PageImages the page it came from
    wpc,            \* per download goroutine: its position
    sem,            \* number of tokens in the channel sem
    mu,             \* index of the goroutine holding mu (0: unlocked)
    pages,          \* the shared slice pages
    arrival,        \* history: the goroutines in the order they appended
    dfiles,         \* file name -> image stored, in the catalog's directory
    newsletter,     \* the Newsletter returned (<<>>: none yet)
    bulkScan,       \* history: the single-page scan: ran, ok, srcs
    \* extractImageFromPage (SpecLocator)
    lpc,            \* "idle" | "start" | "evaluated" | "returned"
    doc,            \* the img elements of the rendered page, in document order
    locPageURL,     \* the pageURL argument
    locImageURL,    \* the string the script gave (<<>>: '')
    located,        \* what the function returned: [err, url]
    \* downloadImage (SpecFetch)
    dpc,            \* "idle" | "get" | "status" | "create" | "copy" | "returned"
    resp,           \* the response: StatusCode (0: none yet) and Body
    requests,       \* history: number of GET requests sent
    destFile,       \* the file at filePath: exists, data
    destBefore,     \* history: the file at filePath when the call began
    dlErr,          \* the error returned ("": nil)
    \* saveNewslettersToFile and loadNewslettersFromFile (SpecStore)
    spc,            \* "idle" | "marshal" | "open" | "write" | "returned"
    newsletters,    \* the slice given to saveNewslettersToFile: isNil, recs
    jsonData,       \* the bytes json.MarshalIndent gave
    metaFile,       \* the file newsletters.json: exists, data
    metaBefore,     \* history: newsletters.json when the call began
    saveErr,        \* the error saveNewslettersToFile returned ("": nil)
    loaded,         \* the latest result of loadNewslettersFromFile: when, err, val
    \* the HTTP handler scrapeStore and its goroutine (SpecHandler)
    hpc,            \* per request, the handler: "none" | "spawned" | "answered"
    hresp,          \* per request, the status of the response sent ("": none)
    gpc,            \* per request, the goroutine's position
    scrapedNewsletters, \* per request, what ScrapeAndDownload returned
    existingMap,    \* per request, the map the merge builds: a set of records
    memNewsletters, \* the global slice newsletters of package main
    memStart,       \* history: the global slice when the server started
    \* ScrapeAndDownload (SpecRun)
    rpc,            \* "idle" | "loop" | "returned"
    catalogURLs,    \* per catalog link of the list page, the page it leads to
    maxCatalogs,    \* config.MaxCatalogs
    runToday,       \* the day time.Now() shows during the run
    runIdx,         \* the loop's position in catalogURLs
    runNewsletters, \* the slice newsletters of the run
    runLog          \* history: per catalog tried, [outcome, dir, wrote]

urlVars == <<tpc, templateURL, extracted, built>>

cfgVars == <<config, cpc, runErr, deadline, inflight, coverStatus, firstPageNum,
             lastPageNum, pageNum, imageURL, lastResolved, requested, outcomes,
             resolved, cfiles, lateStarts, pauses>>

catVars == <<MaxPages, phase, page, emptyCount, seen, PageImages, CoverImage, visits,
             srcPage, wpc, sem, mu, pages, arrival, dfiles, newsletter, bulkScan>>

locVars == <<lpc, doc, locPageURL, locImageURL, located>>

runVars == <<rpc, catalogURLs, maxCatalogs, runToday, runIdx, runNewsletters, runLog>>

\* The three pipelines, and the functions explored on their own.  The run
\* over the catalogs of a store is idle in all of them.
pipeVars == <<urlVars, cfgVars, catVars, runVars>>

fetchVars == <<dpc, resp, requests, destFile, destBefore, dlErr>>

storeVars == <<spc, newsletters, jsonData, metaFile, metaBefore, saveErr, loaded>>

handlerVars == <<hpc, hresp, gpc, scrapedNewsletters, existingMap, memNewsletters,
                 memStart>>

auxVars == <<locVars, fetchVars, storeVars, handlerVars, runVars>>

vars == <<urlVars, cfgVars, catVars, auxVars>>

\* ------------------------------------------------- SpecURL: URL templater

URLInit ==
    /\ tpc = "input"
    /\ templateURL \in URLs
    /\ extracted = 0
    /\ built = <<>>

\* The templater's variables while another part of the program is explored.
URLIdle ==
    /\ tpc = "idle"
    /\ templateURL = <<>>
    /\ extracted = 0
    /\ built = <<>>

\* extractPageNumber(templateURL) returns a number.
TemplaterExtract ==
    /\ UNCHANGED <<cfgVars, catVars, auxVars>>
    /\ tpc = "input"
    /\ extractPageNumber(templateURL).ok
    /\ extracted' = extractPageNumber(templateURL).val
    /\ tpc' = "extracted"
    /\ UNCHANGED <<templateURL, built>>

\* extractPageNumber(templateURL) returns an error.
TemplaterExtractFails ==
    /\ UNCHANGED <<cfgVars, catVars, auxVars>>
    /\ tpc = "input"
    /\ ~extractPageNumber(templateURL).ok
    /\ tpc' = "failed"
    /\ UNCHANGED <<templateURL, extracted, built>>

\* buildPageURL(templateURL, extracted).
TemplaterBuild ==
    /\ UNCHANGED <<cfgVars, catVars, auxVars>>
    /\ tpc = "extracted"
    /\ built' = buildPageURL(templateURL, extracted)
    /\ tpc' = "built"
    /\ UNCHANGED <<templateURL, extracted>>

URLNext ==
    \/ TemplaterExtract
    \/ TemplaterExtractFails
    \/ TemplaterBuild

\* ------------------------------- SpecConfig: ScrapeAndDownloadFromConfig

\* The URLs a config names its first and last page with: well-formed ones
\* (.../page/<d>) and ones without the page pattern.
PageDigits == {DigitChars[d + 1] : d \in 1..MaxPageDigit}

ConfigURLs ==
    {<<"x">>, <<"x", PageTok>>} \cup {<<"x", PageTok, d>> : d \in PageDigits}

CoverFile == <<"cover-image.jpg">>

\* The page file named with two digits, as downloadCatalogImages names it.
ConfigPageFileTwoDigits(n) == <<"page-">> \o ZeroPad(Itoa(n), 2) \o <<".jpg">>

\* fmt.Sprintf("page-%03d.jpg", pageNum)
ConfigPageFile(n) == <<"page-">> \o ZeroPad(Itoa(n), 3) \o <<".jpg">>

WriteFile(fs, name, content) ==
    [f \in DOMAIN fs \cup {name} |-> IF f = name THEN content ELSE fs[f]]

\* A loop that does not advance.
NextPageSame(p) == p

\* The loop's post statement pageNum++.
NextPage(p) == p + 1

\* A failed page ends the run with an error.
AbortRun ==
    /\ pageNum' = pageNum
    /\ cpc' = "returned"
    /\ runErr' = "error"

\* A continue that leaves the loop variable as it is: the page is tried again.
ContinueLoopSamePage ==
    /\ pageNum' = pageNum
    /\ cpc' = "loop"
    /\ runErr' = runErr

\* `continue` after a failed page (lines 88 and 96): on to the next page.
ContinueLoop ==
    /\ pageNum' = NextPage(pageNum)
    /\ cpc' = "loop"
    /\ runErr' = runErr

\* A cover failure ends the run with an error.
CoverFailedAborts(status) ==
    /\ coverStatus' = status
    /\ cpc' = "returned"
    /\ runErr' = "error"

\* Lines 56-57 and 60-61: a cover that cannot be extracted or downloaded is
\* logged as a warning and the run goes on to the page range.
CoverFailed(status) ==
    /\ coverStatus' = status
    /\ cpc' = "parse"
    /\ runErr' = runErr

\* A render that does not look at the context: after the deadline it still
\* loads the page.
RenderResultsIgnoringDeadline(own) ==
    {[kind |-> "err", url |-> 0], [kind |-> "empty", url |-> 0]}
    \cup {[kind |-> "url", url |-> u] : u \in {own, lastResolved} \ {0}}

\* What chromedp.Run + the selector script can give for a page: an error, an
\* empty string, the page's own image, or the image of the page before (a
\* stale render).  Once the context's deadline has passed only an error.
RenderResults(own) ==
    IF deadline THEN {[kind |-> "err", url |-> 0]}
    ELSE {[kind |-> "err", url |-> 0], [kind |-> "empty", url |-> 0]}
         \cup {[kind |-> "url", url |-> u] : u \in {own, lastResolved} \ {0}}

ConfigRest ==
    /\ runErr = "running"
    /\ deadline = FALSE
    /\ inflight = 0
    /\ coverStatus = "none"
    /\ firstPageNum = 0
    /\ lastPageNum = 0
    /\ pageNum = 0
    /\ imageURL = 0
    /\ lastResolved = 0
    /\ requested = <<>>
    /\ outcomes = <<>>
    /\ resolved = <<>>
    /\ cfiles = <<>>
    /\ lateStarts = {}
    /\ pauses = {}

\* No run of ScrapeAndDownloadFromConfig is under way.
ConfigIdle ==
    /\ config = [CoverImage |-> <<"x">>, FirstPage |-> <<"x">>, LastPage |-> <<"x">>]
    /\ cpc = "idle"
    /\ ConfigRest

ConfigInit ==
    /\ config \in [CoverImage : {<<"x">>}, FirstPage : ConfigURLs, LastPage : ConfigURLs]
    /\ cpc = "start"
    /\ ConfigRest

\* Lines 22-51: load the config, create the directories and the context.
StartRun ==
    /\ UNCHANGED <<urlVars, catVars, auxVars>>
    /\ cpc = "start"
    /\ \E r \in {"ok", "loadFailed", "mkdirFailed"} :
          IF r = "ok"
          THEN cpc' = "cover" /\ runErr' = runErr
          ELSE cpc' = "returned" /\ runErr' = "error"
    /\ UNCHANGED <<config, deadline, inflight, coverStatus, firstPageNum, lastPageNum,
                   pageNum, imageURL, lastResolved, requested, outcomes, resolved, cfiles, lateStarts, pauses>>

\* context.WithTimeout(..., 300*time.Second) expires during the run.
DeadlineFires ==
    /\ UNCHANGED <<urlVars, catVars, auxVars>>
    /\ cpc \notin {"start", "returned"}
    /\ ~deadline
    /\ deadline' = TRUE
    /\ UNCHANGED <<config, cpc, runErr, inflight, coverStatus, firstPageNum, lastPageNum,
                   pageNum, imageURL, lastResolved, requested, outcomes, resolved, cfiles, lateStarts, pauses>>

\* Line 55: extractImageFromPage(taskCtx, config.CoverImage) is called.
CoverRenderBegin ==
    /\ UNCHANGED <<urlVars, catVars, auxVars>>
    /\ cpc = "cover"
    /\ inflight' = inflight + 1
    /\ cpc' = "coverRender"
    /\ UNCHANGED <<config, runErr, deadline, coverStatus, firstPageNum, lastPageNum,
                   pageNum, imageURL, lastResolved, requested, outcomes, resolved, cfiles, lateStarts, pauses>>

\* Lines 55-58: the cover's render returns.
CoverRenderEnd ==
    /\ UNCHANGED <<urlVars, catVars, auxVars>>
    /\ cpc = "coverRender"
    /\ inflight' = inflight - 1
    /\ \E r \in RenderResults(1) :
          IF r.kind # "url"
          THEN /\ CoverFailed("extractFailed")
               /\ imageURL' = 0
          ELSE /\ coverStatus' = coverStatus
               /\ imageURL' = r.url
               /\ cpc' = "coverDownload"
               /\ runErr' = runErr
    /\ UNCHANGED <<config, deadline, firstPageNum, lastPageNum, pageNum,
                   lastResolved, requested, outcomes, resolved, cfiles, lateStarts, pauses>>

\* Lines 59-64: downloadImage(coverImageURL, ".../cover-image.jpg").
CoverDownload ==
    /\ UNCHANGED <<urlVars, catVars, auxVars>>
    /\ cpc = "coverDownload"
    /\ \E ok \in BOOLEAN :
          IF ok
          THEN /\ coverStatus' = "ok"
               /\ cfiles' = WriteFile(cfiles, CoverFile, imageURL)
               /\ cpc' = "parse"
               /\ runErr' = runErr
          ELSE /\ CoverFailed("downloadFailed")
               /\ cfiles' = cfiles
    /\ imageURL' = 0
    /\ UNCHANGED <<config, deadline, inflight, firstPageNum, lastPageNum, pageNum,
                   lastResolved, requested, outcomes, resolved, lateStarts, pauses>>

\* Only the error of the first extractPageNumber call is looked at.
RangeMalformedFirstOnly == ~extractPageNumber(config.FirstPage).ok

\* Lines 68-76: extractPageNumber fails on first_page or last_page.
RangeMalformed ==
    \/ ~extractPageNumber(config.FirstPage).ok
    \/ ~extractPageNumber(config.LastPage).ok

\* Lines 67-78: parse the page range; a malformed URL ends the run.
ParseRange ==
    /\ UNCHANGED <<urlVars, catVars, auxVars>>
    /\ cpc = "parse"
    /\ IF RangeMalformed
       THEN /\ cpc' = "returned"
            /\ runErr' = "error"
            /\ UNCHANGED <<firstPageNum, lastPageNum, pageNum>>
       ELSE /\ firstPageNum' = extractPageNumber(config.FirstPage).val
            /\ lastPageNum' = extractPageNumber(config.LastPage).val
            /\ pageNum' = extractPageNumber(config.FirstPage).val
            /\ cpc' = "loop"
            /\ runErr' = runErr
    /\ UNCHANGED <<config, deadline, inflight, coverStatus, imageURL, lastResolved,
                   requested, outcomes, resolved, cfiles, lateStarts, pauses>>

\* Lines 81-85: the loop condition holds; build the page URL and navigate.
PageRenderBegin ==
    /\ UNCHANGED <<urlVars, catVars, auxVars>>
    /\ cpc = "loop"
    /\ pageNum <= lastPageNum
    /\ LET pageURL == buildPageURL(config.FirstPage, pageNum)
       IN  requested' = Append(requested, extractPageNumber(pageURL).val)
    /\ lateStarts' = IF deadline THEN lateStarts \cup {pageNum} ELSE lateStarts
    /\ inflight' = inflight + 1
    /\ cpc' = "pageRender"
    /\ UNCHANGED <<config, runErr, deadline, coverStatus, firstPageNum, lastPageNum,
                   pageNum, imageURL, lastResolved, outcomes, resolved, cfiles, pauses>>

\* Lines 85-89: the page's render returns.
PageRenderEnd ==
    /\ UNCHANGED <<urlVars, catVars, auxVars>>
    /\ cpc = "pageRender"
    /\ inflight' = inflight - 1
    /\ \E r \in RenderResults(pageNum) :
          IF r.kind # "url"
          THEN /\ outcomes' = Append(outcomes, r.kind)
               /\ resolved' = Append(resolved, 0)
               /\ imageURL' = 0
               /\ lastResolved' = lastResolved
               /\ ContinueLoop
          ELSE /\ imageURL' = r.url
               /\ lastResolved' = r.url
               /\ resolved' = Append(resolved, r.url)
               /\ cpc' = "pageLocated"
               /\ UNCHANGED <<outcomes, pageNum, runErr>>
    /\ UNCHANGED <<config, deadline, coverStatus, firstPageNum, lastPageNum, requested,
                   cfiles, lateStarts, pauses>>

\* Lines 91-93: the file name and the path are built and downloadImage is
\* called.
PageDownloadBegin ==
    /\ UNCHANGED <<urlVars, catVars, auxVars>>
    /\ cpc = "pageLocated"
    /\ cpc' = "pageDownload"
    /\ UNCHANGED <<config, runErr, deadline, inflight, coverStatus, firstPageNum,
                   lastPageNum, pageNum, imageURL, lastResolved, requested, outcomes,
                   resolved, cfiles, lateStarts, pauses>>

\* Lines 93-99: downloadImage returns; the page image is in page-<pageNum>.jpg
\* or the failure is logged.
PageDownload ==
    /\ UNCHANGED <<urlVars, catVars, auxVars>>
    /\ cpc = "pageDownload"
    /\ \E ok \in BOOLEAN :
          IF ok
          THEN /\ cfiles' = WriteFile(cfiles, ConfigPageFile(pageNum), imageURL)
               /\ outcomes' = Append(outcomes, "ok")
               /\ cpc' = "sleep"
               /\ UNCHANGED <<pageNum, runErr>>
          ELSE /\ cfiles' = cfiles
               /\ outcomes' = Append(outcomes, "dlfail")
               /\ ContinueLoop
    /\ imageURL' = 0
    /\ UNCHANGED <<config, deadline, inflight, coverStatus, firstPageNum, lastPageNum,
                   lastResolved, requested, resolved, lateStarts, pauses>>

\* Lines 59 and 93, downloadImage's http.Get (line 206): the server never
\* answers.  The request carries neither the context nor a timeout, so the
\* call does not return.
DownloadBlocks ==
    /\ UNCHANGED <<urlVars, catVars, auxVars>>
    /\ cpc \in {"coverDownload", "pageDownload"}
    /\ cpc' = "blocked"
    /\ UNCHANGED <<config, runErr, deadline, inflight, coverStatus, firstPageNum,
                   lastPageNum, pageNum, imageURL, lastResolved, requested, outcomes,
                   resolved, cfiles, lateStarts, pauses>>

\* Lines 101-103: time.Sleep(500ms), then pageNum++.
PageSleep ==
    /\ UNCHANGED <<urlVars, catVars, auxVars>>
    /\ cpc = "sleep"
    /\ pauses' = pauses \cup {Len(requested)}
    /\ pageNum' = NextPage(pageNum)
    /\ cpc' = "loop"
    /\ UNCHANGED <<config, runErr, deadline, inflight, coverStatus, firstPageNum,
                   lastPageNum, imageURL, lastResolved, requested, outcomes, resolved,
                   cfiles, lateStarts>>

\* Lines 81, 104-106: the loop condition fails; return nil.
FinishRun ==
    /\ UNCHANGED <<urlVars, catVars, auxVars>>
    /\ cpc = "loop"
    /\ pageNum > lastPageNum
    /\ cpc' = "returned"
    /\ runErr' = "nil"
    /\ UNCHANGED <<config, deadline, inflight, coverStatus, firstPageNum, lastPageNum,
                   pageNum, imageURL, lastResolved, requested, outcomes, resolved, cfiles, lateStarts, pauses>>

ConfigNext ==
    \/ StartRun
    \/ DeadlineFires
    \/ CoverRenderBegin
    \/ CoverRenderEnd
    \/ CoverDownload
    \/ ParseRange
    \/ PageRenderBegin
    \/ PageRenderEnd
    \/ PageDownloadBegin
    \/ PageDownload
    \/ DownloadBlocks
    \/ PageSleep
    \/ FinishRun


\* ------------------- Spec: scrapeCatalogPages and downloadCatalogImages

\* Largest config.MaxPages explored.
MaxPagesCfg == 5
\* Number of page images handed to the download pool in SpecPool.
PoolTasks == 6
\* Longest list of image sources the single-page scan returns.
MaxBulk == 3

\* make(chan struct{}, 5): the capacity of sem.
SemCap == 5

\* emptyCount >= 3 ends the page loop.
EmptyLimit == 3

\* The sources the single-page scan can return: "" (0) and two images.
BulkLists == UNION {[1..n -> 0..2] : n \in 0..MaxBulk}

CoverJpg == <<"cover.jpg">>

\* fmt.Sprintf("page-%02d.jpg", num+1)
PageFile(n) == <<"page-">> \o ZeroPad(Itoa(n), 2) \o <<".jpg">>

\* fmt.Sprintf("/newsletters/%s/%s", id, filename)
NewsletterPath(filename) == <<"/newsletters/", "id", "/">> \o filename

\* Pages numbered in the order their downloads complete.
PageNumberByArrival(w, ps) == Len(ps) + 1

\* The page number a download goroutine gives its page: num + 1, num being
\* the index of the image in catalog.PageImages (0-based in the source; the
\* goroutines are numbered from 1 here, so num + 1 is the goroutine's index).
PageNumberOf(w, ps) == w

\* The loop of lines 529-532: one goroutine per page image, at most MaxPages.
Tasks == 1..(IF Len(PageImages) < MaxPages THEN Len(PageImages) ELSE MaxPages)

\* A channel that takes one token more than its capacity.
SemHasRoomOffByOne(n) == n <= SemCap

\* A channel of capacity 1: one download at a time.
SemHasRoomForOne(n) == n < 1

\* The send `sem <- struct{}{}` can proceed.
SemHasRoom(n) == n < SemCap

\* An exchange that writes one side only.
SwapOverwrites(ps, i, j) == [ps EXCEPT ![i] = ps[j]]

\* pages[i], pages[j] = pages[j], pages[i]
Swap(ps, i, j) == [ps EXCEPT ![i] = ps[j], ![j] = ps[i]]

\* sortPages, lines 570-578: the inner loop from j on, for a fixed i.
RECURSIVE SortInner(_, _, _)
SortInner(ps, i, j) ==
    IF j > Len(ps) THEN ps
    ELSE IF ps[i].PageNumber > ps[j].PageNumber
         THEN SortInner(Swap(ps, i, j), i, j + 1)
         ELSE SortInner(ps, i, j + 1)

\* Only the first pass of the outer loop.
SortOnePass(ps, i) == SortInner(ps, i, i + 1)

RECURSIVE SortOuter(_, _)
SortOuter(ps, i) ==
    IF i > Len(ps) THEN ps ELSE SortOuter(SortInner(ps, i, i + 1), i + 1)

sortPages(ps) == SortOuter(ps, 1)

\* The single-page scan was not made.
NoScan == [ran |-> FALSE, ok |-> FALSE, srcs |-> <<>>]

\* An append of every non-empty source, seen before or not.
RECURSIVE BulkAppendAll(_, _, _)
BulkAppendAll(imgs, srcs, i) ==
    IF i > Len(srcs) THEN imgs
    ELSE IF srcs[i] # 0
         THEN BulkAppendAll(Append(imgs, srcs[i]), srcs, i + 1)
         ELSE BulkAppendAll(imgs, srcs, i + 1)

\* Lines 492-498: append the trimmed, non-empty, unseen sources in order.
RECURSIVE BulkAppend(_, _, _)
BulkAppend(imgs, srcs, i) ==
    IF i > Len(srcs) THEN imgs
    ELSE IF srcs[i] # 0 /\ \A k \in 1..Len(imgs) : imgs[k] # srcs[i]
         THEN BulkAppend(Append(imgs, srcs[i]), srcs, i + 1)
         ELSE BulkAppend(imgs, srcs, i + 1)

\* What navigating to a page and evaluating the selector gives: an error, an
\* empty string, or an image URL: the page's own image, or the image of the
\* page before (the viewer did not advance).
PageResults(p) ==
    {[kind |-> "err", url |-> 0], [kind |-> "empty", url |-> 0]}
    \cup {[kind |-> "url", url |-> u] : u \in {p - 1, p} \ {0}}

CatalogRest ==
    /\ page = 1
    /\ emptyCount = 0
    /\ seen = {}
    /\ PageImages = <<>>
    /\ CoverImage = 0
    /\ visits = <<>>
    /\ srcPage = <<>>
    /\ wpc = <<>>
    /\ sem = 0
    /\ mu = 0
    /\ pages = <<>>
    /\ arrival = <<>>
    /\ dfiles = <<>>
    /\ newsletter = <<>>
    /\ bulkScan = NoScan

\* No catalog is being processed.
CatalogIdle ==
    /\ MaxPages = 0
    /\ phase = "idle"
    /\ CatalogRest

CatalogInit ==
    /\ MaxPages \in 1..MaxPagesCfg
    /\ phase = "load"
    /\ CatalogRest

\* scrapeCatalogPages has returned a catalog of PoolTasks pages, each page
\* having given its own image.
PoolInit ==
    /\ MaxPages = PoolTasks
    /\ phase = "scraped"
    /\ page = PoolTasks + 1
    /\ emptyCount = 0
    /\ seen = 1..PoolTasks
    /\ PageImages = [k \in 1..PoolTasks |-> k]
    /\ CoverImage = 1
    /\ visits = [k \in 1..PoolTasks |-> [page |-> k, kind |-> "url", url |-> k]]
    /\ srcPage = [k \in 1..PoolTasks |-> k]
    /\ wpc = <<>>
    /\ sem = 0
    /\ mu = 0
    /\ pages = <<>>
    /\ arrival = <<>>
    /\ dfiles = <<>>
    /\ newsletter = <<>>
    /\ bulkScan = NoScan

\* Lines 404-425: load the catalog's base page for the title and the dates.
LoadCatalog ==
    /\ UNCHANGED <<urlVars, cfgVars, auxVars>>
    /\ phase = "load"
    /\ \E ok \in BOOLEAN : phase' = IF ok THEN "loop" ELSE "failed"
    /\ UNCHANGED <<bulkScan, MaxPages, page, emptyCount, seen, PageImages, CoverImage, visits,
                   srcPage, wpc, sem, mu, pages, arrival, dfiles, newsletter>>

\* Lines 445-462: a page without an image; the third in a row ends the loop.
EmptyPage ==
    /\ emptyCount' = emptyCount + 1
    /\ IF emptyCount + 1 >= EmptyLimit
       THEN phase' = "scanned" /\ page' = page
       ELSE phase' = phase /\ page' = page + 1
    /\ UNCHANGED <<seen, PageImages, srcPage>>

\* A page loop that takes every image, seen before or not, and goes on.
FoundPageKeepsDuplicate(u) ==
    /\ seen' = seen \cup {u}
    /\ PageImages' = Append(PageImages, u)
    /\ srcPage' = Append(srcPage, page)
    /\ emptyCount' = 0
    /\ page' = page + 1
    /\ phase' = phase

\* Lines 464-472: a page with an image; one already seen ends the loop.
FoundPage(u) ==
    IF u \notin seen
    THEN /\ seen' = seen \cup {u}
         /\ PageImages' = Append(PageImages, u)
         /\ srcPage' = Append(srcPage, page)
         /\ emptyCount' = 0
         /\ page' = page + 1
         /\ phase' = phase
    ELSE /\ phase' = "scanned"
         /\ UNCHANGED <<seen, PageImages, srcPage, emptyCount, page>>

\* Lines 430-473: one iteration of the page loop.
ScrapePage ==
    /\ UNCHANGED <<urlVars, cfgVars, auxVars>>
    /\ phase = "loop"
    /\ page <= MaxPages
    /\ \E r \in PageResults(page) :
          /\ visits' = Append(visits, [page |-> page, kind |-> r.kind, url |-> r.url])
          /\ IF r.kind = "url" THEN FoundPage(r.url) ELSE EmptyPage
    /\ UNCHANGED <<bulkScan, MaxPages, CoverImage, wpc, sem, mu, pages, arrival, dfiles, newsletter>>

\* Line 430: the loop condition fails.
LoopExhausted ==
    /\ UNCHANGED <<urlVars, cfgVars, auxVars>>
    /\ phase = "loop"
    /\ page > MaxPages
    /\ phase' = "scanned"
    /\ UNCHANGED <<bulkScan, MaxPages, page, emptyCount, seen, PageImages, CoverImage, visits,
                   srcPage, wpc, sem, mu, pages, arrival, dfiles, newsletter>>

\* Lines 475-508: the single-page scan when no page image was found, then
\* the cover; scrapeCatalogPages returns the catalog.
FinishScrape ==
    /\ UNCHANGED <<urlVars, cfgVars, auxVars>>
    /\ phase = "scanned"
    /\ \E srcs \in (IF PageImages = <<>> THEN BulkLists ELSE {<<>>}), scanOk \in BOOLEAN :
          /\ PageImages = <<>> \/ scanOk
          /\ LET imgs == IF PageImages = <<>> /\ scanOk
                         THEN BulkAppend(PageImages, srcs, 1)
                         ELSE PageImages
             IN  /\ PageImages' = imgs
                 /\ srcPage' = IF PageImages = <<>> THEN [k \in 1..Len(imgs) |-> 0]
                               ELSE srcPage
                 /\ seen' = seen \cup {imgs[k] : k \in 1..Len(imgs)}
                 /\ CoverImage' = IF Len(imgs) > 0 THEN imgs[1] ELSE 0
          /\ bulkScan' = IF PageImages = <<>>
                         THEN [ran |-> TRUE, ok |-> scanOk,
                               srcs |-> IF scanOk THEN srcs ELSE <<>>]
                         ELSE bulkScan
    /\ phase' = "scraped"
    /\ UNCHANGED <<MaxPages, page, emptyCount, visits, wpc, sem, mu, pages, arrival,
                   dfiles, newsletter>>

\* Lines 510-552: create the directory, download the cover (its result is
\* dropped), start one goroutine per page image.
StartDownloads ==
    /\ UNCHANGED <<urlVars, cfgVars, auxVars>>
    /\ phase = "scraped"
    /\ \E r \in {"mkdirFailed", "coverOk", "coverFailed"} :
          IF r = "mkdirFailed"
          THEN /\ phase' = "failed"
               /\ UNCHANGED <<wpc, dfiles>>
          ELSE /\ phase' = "pool"
               /\ wpc' = [w \in Tasks |-> "wait"]
               /\ dfiles' = IF r = "coverOk" /\ CoverImage # 0
                            THEN WriteFile(dfiles, CoverJpg, CoverImage)
                            ELSE dfiles
    /\ UNCHANGED <<bulkScan, MaxPages, page, emptyCount, seen, PageImages, CoverImage, visits,
                   srcPage, sem, mu, pages, arrival, newsletter>>

\* Line 537: sem <- struct{}{}.
AcquireSlot(w) ==
    /\ UNCHANGED <<urlVars, cfgVars, auxVars>>
    /\ phase = "pool"
    /\ wpc[w] = "wait"
    /\ SemHasRoom(sem)
    /\ sem' = sem + 1
    /\ wpc' = [wpc EXCEPT ![w] = "fetch"]
    /\ UNCHANGED <<bulkScan, MaxPages, phase, page, emptyCount, seen, PageImages, CoverImage,
                   visits, srcPage, mu, pages, arrival, dfiles, newsletter>>

\* Lines 540-541: downloadImage succeeds and the file is written.
FetchOk(w) ==
    /\ UNCHANGED <<urlVars, cfgVars, auxVars>>
    /\ phase = "pool"
    /\ wpc[w] = "fetch"
    /\ dfiles' = WriteFile(dfiles, PageFile(PageNumberOf(w, pages)), PageImages[w])
    /\ wpc' = [wpc EXCEPT ![w] = "fetched"]
    /\ UNCHANGED <<bulkScan, MaxPages, phase, page, emptyCount, seen, PageImages, CoverImage,
                   visits, srcPage, sem, mu, pages, arrival, newsletter>>

\* A failed download whose goroutine ends without giving its slot back.
FetchFailKeepsSlot(w) ==
    /\ UNCHANGED <<urlVars, cfgVars, auxVars>>
    /\ phase = "pool"
    /\ wpc[w] = "fetch"
    /\ sem' = sem
    /\ wpc' = [wpc EXCEPT ![w] = "failed"]
    /\ UNCHANGED <<bulkScan, MaxPages, phase, page, emptyCount, seen, PageImages, CoverImage,
                   visits, srcPage, mu, pages, arrival, dfiles, newsletter>>

\* A failed download that goes on to the append instead of returning.
FetchFailGoesOn(w) ==
    /\ UNCHANGED <<urlVars, cfgVars, auxVars>>
    /\ phase = "pool"
    /\ wpc[w] = "fetch"
    /\ sem' = sem
    /\ wpc' = [wpc EXCEPT ![w] = "fetched"]
    /\ UNCHANGED <<bulkScan, MaxPages, phase, page, emptyCount, seen, PageImages, CoverImage,
                   visits, srcPage, mu, pages, arrival, dfiles, newsletter>>

\* Lines 541-543 and the deferred calls: downloadImage fails, the goroutine
\* returns, gives its slot back and calls wg.Done.
FetchFail(w) ==
    /\ UNCHANGED <<urlVars, cfgVars, auxVars>>
    /\ phase = "pool"
    /\ wpc[w] = "fetch"
    /\ sem' = sem - 1
    /\ wpc' = [wpc EXCEPT ![w] = "failed"]
    /\ UNCHANGED <<bulkScan, MaxPages, phase, page, emptyCount, seen, PageImages, CoverImage,
                   visits, srcPage, mu, pages, arrival, dfiles, newsletter>>

\* Line 541, downloadImage's http.Get (line 616): the server never answers.
\* The request carries no context and no timeout, so the call does not
\* return; the goroutine keeps its slot of sem and never calls wg.Done.
FetchHangs(w) ==
    /\ UNCHANGED <<urlVars, cfgVars, auxVars>>
    /\ phase = "pool"
    /\ wpc[w] = "fetch"
    /\ wpc' = [wpc EXCEPT ![w] = "hung"]
    /\ UNCHANGED <<bulkScan, MaxPages, phase, page, emptyCount, seen, PageImages, CoverImage,
                   visits, srcPage, sem, mu, pages, arrival, dfiles, newsletter>>

\* A lock that is given to whoever asks.
MutexAlwaysFree == TRUE

\* mu.Lock() returns only when no goroutine holds mu.
MutexFree == mu = 0

\* Line 545: mu.Lock().
LockPages(w) ==
    /\ UNCHANGED <<urlVars, cfgVars, auxVars>>
    /\ phase = "pool"
    /\ wpc[w] = "fetched"
    /\ MutexFree
    /\ mu' = w
    /\ wpc' = [wpc EXCEPT ![w] = "locked"]
    /\ UNCHANGED <<bulkScan, MaxPages, phase, page, emptyCount, seen, PageImages, CoverImage,
                   visits, srcPage, sem, pages, arrival, dfiles, newsletter>>

\* Lines 546-551 and the deferred calls: append the page, mu.Unlock(), give
\* the slot back, wg.Done.
AppendPage(w) ==
    /\ UNCHANGED <<urlVars, cfgVars, auxVars>>
    /\ phase = "pool"
    /\ wpc[w] = "locked"
    /\ pages' = Append(pages, [PageNumber |-> PageNumberOf(w, pages),
                               ImageURL |-> NewsletterPath(PageFile(PageNumberOf(w, pages)))])
    /\ arrival' = Append(arrival, w)
    /\ mu' = 0
    /\ sem' = sem - 1
    /\ wpc' = [wpc EXCEPT ![w] = "done"]
    /\ UNCHANGED <<bulkScan, MaxPages, phase, page, emptyCount, seen, PageImages, CoverImage,
                   visits, srcPage, dfiles, newsletter>>

\* Lines 554-567: wg.Wait() returns, the pages are sorted, the record built.
ReturnNewsletter ==
    /\ UNCHANGED <<urlVars, cfgVars, auxVars>>
    /\ phase = "pool"
    /\ \A w \in Tasks : wpc[w] \in {"done", "failed"}
    /\ pages' = sortPages(pages)
    /\ newsletter' = [CoverImage |-> NewsletterPath(CoverJpg), Pages |-> sortPages(pages)]
    /\ phase' = "returned"
    /\ UNCHANGED <<bulkScan, MaxPages, page, emptyCount, seen, PageImages, CoverImage, visits,
                   srcPage, wpc, sem, mu, arrival, dfiles>>

\* The pool is running: the goroutines of the first h page images, h from
\* 1 to 4, have taken their slots and wait for servers that never answer;
\* the other goroutines have not started (the cover was not downloaded).
PoolHangInit ==
    /\ MaxPages = PoolTasks
    /\ phase = "pool"
    /\ page = PoolTasks + 1
    /\ emptyCount = 0
    /\ seen = 1..PoolTasks
    /\ PageImages = [k \in 1..PoolTasks |-> k]
    /\ CoverImage = 1
    /\ visits = [k \in 1..PoolTasks |-> [page |-> k, kind |-> "url", url |-> k]]
    /\ srcPage = [k \in 1..PoolTasks |-> k]
    /\ \E h \in 1..(SemCap - 1) :
          /\ wpc = [w \in 1..PoolTasks |-> IF w <= h THEN "hung" ELSE "wait"]
          /\ sem = h
    /\ mu = 0
    /\ pages = <<>>
    /\ arrival = <<>>
    /\ dfiles = <<>>
    /\ newsletter = <<>>
    /\ bulkScan = NoScan

\* The steps of the download goroutines.
PoolWorkerNext ==
    \/ \E w \in DOMAIN wpc : AcquireSlot(w)
    \/ \E w \in DOMAIN wpc : FetchOk(w)
    \/ \E w \in DOMAIN wpc : FetchFail(w)
    \/ \E w \in DOMAIN wpc : FetchHangs(w)
    \/ \E w \in DOMAIN wpc : LockPages(w)
    \/ \E w \in DOMAIN wpc : AppendPage(w)

\* The pool is full: the goroutines of the first SemCap page images have
\* taken the slots and download, the others wait for a slot.
PoolFullInit ==
    /\ MaxPages = PoolTasks
    /\ phase = "pool"
    /\ page = PoolTasks + 1
    /\ emptyCount = 0
    /\ seen = 1..PoolTasks
    /\ PageImages = [k \in 1..PoolTasks |-> k]
    /\ CoverImage = 1
    /\ visits = [k \in 1..PoolTasks |-> [page |-> k, kind |-> "url", url |-> k]]
    /\ srcPage = [k \in 1..PoolTasks |-> k]
    /\ wpc = [w \in 1..PoolTasks |-> IF w <= SemCap THEN "fetch" ELSE "wait"]
    /\ sem = SemCap
    /\ mu = 0
    /\ pages = <<>>
    /\ arrival = <<>>
    /\ dfiles = <<>>
    /\ newsletter = <<>>
    /\ bulkScan = NoScan

\* The goroutines of the download phase when every http.Get returns, with
\* a response or with an error.
PoolReturnsNext ==
    \/ \E w \in DOMAIN wpc : AcquireSlot(w)
    \/ \E w \in DOMAIN wpc : FetchOk(w)
    \/ \E w \in DOMAIN wpc : FetchFail(w)
    \/ \E w \in DOMAIN wpc : LockPages(w)
    \/ \E w \in DOMAIN wpc : AppendPage(w)

\* downloadCatalogImages against servers that answer; the downloads that
\* hang are explored from the running pool (PoolWorkerNext).
PoolNext ==
    \/ StartDownloads
    \/ \E w \in DOMAIN wpc : AcquireSlot(w)
    \/ \E w \in DOMAIN wpc : FetchOk(w)
    \/ \E w \in DOMAIN wpc : FetchFail(w)
    \/ \E w \in DOMAIN wpc : LockPages(w)
    \/ \E w \in DOMAIN wpc : AppendPage(w)
    \/ ReturnNewsletter

\* The catalog's run against servers that answer.
CatalogNext ==
    \/ LoadCatalog
    \/ ScrapePage
    \/ LoopExhausted
    \/ FinishScrape
    \/ StartDownloads
    \/ \E w \in DOMAIN wpc : AcquireSlot(w)
    \/ \E w \in DOMAIN wpc : FetchOk(w)
    \/ \E w \in DOMAIN wpc : FetchFail(w)
    \/ \E w \in DOMAIN wpc : LockPages(w)
    \/ \E w \in DOMAIN wpc : AppendPage(w)
    \/ ReturnNewsletter

\* ---------------- SpecLidl: downloadCatalogImages of the Lidl-only scraper

\* Most page images a scraped Lidl catalog holds.
LidlMaxImages == 22
\* Most page downloads that fail in one call.
LidlMaxFailures == 2

\* if i >= 20 { break }: the limit of pages per catalog.
LidlPageLimit == 20

\* A test that lets the image of index 20 through.
LidlPastLimitOffByOne(i) == i > LidlPageLimit

\* i >= 20, i being the 0-based index of the image in catalog.PageImages.
LidlPastLimit(i) == i >= LidlPageLimit

\* scrapeCatalogPages has returned a catalog of n page images; the loop
\* variable page is i + 1.
LidlInit ==
    /\ MaxPages = 0
    /\ phase = "lidlStart"
    /\ page = 1
    /\ emptyCount = 0
    /\ \E n \in 0..LidlMaxImages :
          /\ PageImages = [k \in 1..n |-> k]
          /\ seen = 1..n
    /\ CoverImage \in {0, 1}
    /\ visits = <<>>
    /\ srcPage = <<>>
    /\ wpc = <<>>
    /\ sem = 0
    /\ mu = 0
    /\ pages = <<>>
    /\ arrival = <<>>
    /\ dfiles = <<>>
    /\ newsletter = <<>>
    /\ bulkScan = NoScan

\* part_001:199-216: create the directory (an error is returned), download
\* the cover when there is one (an error is only logged).
LidlStartDownload ==
    /\ UNCHANGED <<urlVars, cfgVars, auxVars>>
    /\ phase = "lidlStart"
    /\ \E r \in {"mkdirFailed", "coverOk", "coverFailed"} :
          IF r = "mkdirFailed"
          THEN /\ phase' = "failed"
               /\ UNCHANGED dfiles
          ELSE /\ phase' = "lidlLoop"
               /\ dfiles' = IF r = "coverOk" /\ CoverImage # 0
                            THEN WriteFile(dfiles, CoverJpg, CoverImage)
                            ELSE dfiles
    /\ UNCHANGED <<bulkScan, MaxPages, page, emptyCount, seen, PageImages, CoverImage, visits,
                   srcPage, wpc, sem, mu, pages, arrival, newsletter>>

\* part_001:219-236: one iteration of the loop over catalog.PageImages: the
\* download fails and the loop continues, or the file is written and the
\* page appended.
LidlDownloadPage ==
    /\ UNCHANGED <<urlVars, cfgVars, auxVars>>
    /\ phase = "lidlLoop"
    /\ page <= Len(PageImages)
    /\ ~LidlPastLimit(page - 1)
    /\ \E ok \in BOOLEAN :
          IF ok
          THEN /\ dfiles' = WriteFile(dfiles, PageFile(page), PageImages[page])
               /\ pages' = Append(pages, [PageNumber |-> page,
                                          ImageURL |-> NewsletterPath(PageFile(page))])
          ELSE /\ (page - 1) - Len(pages) < LidlMaxFailures
               /\ UNCHANGED <<dfiles, pages>>
    /\ page' = page + 1
    /\ UNCHANGED <<bulkScan, MaxPages, phase, emptyCount, seen, PageImages, CoverImage, visits,
                   srcPage, wpc, sem, mu, arrival, newsletter>>

\* part_001:220-222 and 238-249: the range is exhausted or the limit is
\* reached; the record is built and returned.
LidlReturn ==
    /\ UNCHANGED <<urlVars, cfgVars, auxVars>>
    /\ phase = "lidlLoop"
    /\ page > Len(PageImages) \/ LidlPastLimit(page - 1)
    /\ newsletter' = [CoverImage |-> NewsletterPath(CoverJpg), Pages |-> pages]
    /\ phase' = "returned"
    /\ UNCHANGED <<bulkScan, MaxPages, page, emptyCount, seen, PageImages, CoverImage, visits,
                   srcPage, wpc, sem, mu, pages, arrival, dfiles>>

LidlNext ==
    \/ LidlStartDownload
    \/ LidlDownloadPage
    \/ LidlReturn

\* --------------------------------------- SpecLocator: extractImageFromPage

\* Most img elements a rendered page holds.
MaxImgs == 2

\* naturalWidth, width, naturalHeight, height of an img: one that is exactly
\* 500 x 500, one whose natural size is 600 x 501, one laid out at 800 x 800,
\* a banner laid out at 900 x 500.
ImgSizes ==
    {[naturalWidth |-> 0, width |-> 500, naturalHeight |-> 0, height |-> 500],
     [naturalWidth |-> 600, width |-> 0, naturalHeight |-> 501, height |-> 0],
     [naturalWidth |-> 0, width |-> 800, naturalHeight |-> 0, height |-> 800],
     [naturalWidth |-> 0, width |-> 900, naturalHeight |-> 0, height |-> 500]}

\* Where an img sits: its class attribute and the element it is inside of.
ImgPlaces ==
    {[class |-> "", inside |-> ""],
     [class |-> "flyer-image", inside |-> ""],
     [class |-> "", inside |-> "main"],
     [class |-> "", inside |-> "article"]}

\* The src property of an img: empty, an .svg, a path without scheme and
\* host, an absolute URL.
ImgSrcs ==
    {<<>>,
     <<"https", "://", "cdn", "/logo.svg">>,
     <<"/img/a.jpg">>,
     <<"https", "://", "cdn", "/b.jpg">>}

Imgs ==
    {[size |-> z, place |-> pl, src |-> sr] : z \in ImgSizes, pl \in ImgPlaces, sr \in ImgSrcs}

Documents == UNION {[1..n -> Imgs] : n \in 0..MaxImgs}

\* The page URLs: one that url.Parse accepts, one with an invalid escape
\* that the browser loads and url.Parse rejects, one without a scheme that
\* the browser does not load.
LocPageURLs ==
    {<<"https", "://", "shop", "/page/1">>,
     <<"https", "://", "shop", "/%zz/page/1">>,
     <<"shop/page/1">>}

\* img.naturalWidth || img.width || 0
WidthOf(img) ==
    IF img.size.naturalWidth # 0 THEN img.size.naturalWidth ELSE img.size.width

\* img.naturalHeight || img.height || 0
HeightOf(img) ==
    IF img.size.naturalHeight # 0 THEN img.size.naturalHeight ELSE img.size.height

\* A filter that one large side satisfies.
IsLargeEitherSide(img) == WidthOf(img) > 500 \/ HeightOf(img) > 500

\* The filter of lines 136-140.
IsLarge(img) == WidthOf(img) > 500 /\ HeightOf(img) > 500

AreaOf(img) == WidthOf(img) * HeightOf(img)

\* largeImages after the sort of lines 144-148: the position in the document
\* of its first element (the sort is stable: of two images of the same area
\* the earlier one in the document stays first).
LargestImage(d) ==
    LET large == {i \in DOMAIN d : IsLarge(d[i])}
    IN  CHOOSE i \in large :
            \A j \in large : \/ AreaOf(d[i]) > AreaOf(d[j])
                             \/ (AreaOf(d[i]) = AreaOf(d[j]) /\ i <= j)

\* Lines 153-162.
Selectors ==
    <<"img.flyer-image", "img[class*=flyer]", "img[class*=catalog]",
      "div.flyer-container img", "div[class*=flyer] img", "div[class*=catalog] img",
      "main img", "article img">>

\* The class attribute values and the enclosing elements a selector accepts.
SelectorMatches(sel, img) ==
    CASE sel = "img.flyer-image" -> img.place.class = "flyer-image"
      [] sel = "img[class*=flyer]" -> img.place.class \in {"flyer-image", "flyer"}
      [] sel = "img[class*=catalog]" -> img.place.class = "catalog"
      [] sel = "div.flyer-container img" -> img.place.inside = "div.flyer-container"
      [] sel = "div[class*=flyer] img" -> img.place.inside \in {"div.flyer-container", "div.flyer"}
      [] sel = "div[class*=catalog] img" -> img.place.inside = "div.catalog"
      [] sel = "main img" -> img.place.inside = "main"
      [] sel = "article img" -> img.place.inside = "article"

\* document.querySelector(sel): the first matching img in document order
\* (0: null).
querySelector(d, sel) ==
    LET hits == {i \in DOMAIN d : SelectorMatches(sel, d[i])}
    IN  IF hits = {} THEN 0 ELSE CHOOSE i \in hits : \A j \in hits : i <= j

\* img.src.includes('.svg')
IncludesSvg(src) == \E k \in DOMAIN src : src[k] = "/logo.svg"

\* Line 167: img && img.src && !img.src.includes('.svg')
Usable(d, i) == i # 0 /\ d[i].src # <<>> /\ ~IncludesSvg(d[i].src)

\* Lines 164-172: the loop over the selectors from the k-th on.
RECURSIVE SelectorChain(_, _)
SelectorChain(d, k) ==
    IF k > Len(Selectors) THEN <<>>
    ELSE IF Usable(d, querySelector(d, Selectors[k]))
         THEN d[querySelector(d, Selectors[k])].src
         ELSE SelectorChain(d, k + 1)

\* The selectors are tried first, the images' sizes only when none gives a
\* source.
selectorJSChainFirst(d) ==
    IF SelectorChain(d, 1) # <<>> THEN SelectorChain(d, 1)
    ELSE IF \E i \in DOMAIN d : IsLarge(d[i]) THEN d[LargestImage(d)].src
    ELSE <<>>

\* Lines 130-174: the script evaluated in the page.
selectorJS(d) ==
    IF \E i \in DOMAIN d : IsLarge(d[i]) THEN d[LargestImage(d)].src
    ELSE SelectorChain(d, 1)

\* strings.TrimSpace: white space at both ends removed.
RECURSIVE TrimSpace(_)
TrimSpace(u) ==
    IF u = <<>> THEN u
    ELSE IF u[1] = " " THEN TrimSpace(Tail(u))
    ELSE IF u[Len(u)] = " " THEN TrimSpace(SubSeq(u, 1, Len(u) - 1))
    ELSE u

\* strings.HasPrefix(u, "http")
HasPrefixHttp(u) == u # <<>> /\ u[1] \in {"http", "https"}

\* url.Parse(u): an invalid escape is an error; without "://" the URL has
\* neither scheme nor host.
urlParse(u) ==
    IF \E k \in DOMAIN u : u[k] = "/%zz/page/1"
    THEN [ok |-> FALSE, Scheme |-> "", Host |-> ""]
    ELSE IF Len(u) >= 3 /\ u[2] = "://"
         THEN [ok |-> TRUE, Scheme |-> u[1], Host |-> u[3]]
         ELSE [ok |-> TRUE, Scheme |-> "", Host |-> ""]

\* chromedp.Navigate loads only a URL with a scheme.
Navigable(u) == Len(u) >= 3 /\ u[2] = "://"

\* Lines 192-199: the URL made absolute.
EnsureAbsolute(imgURL, pgURL) ==
    IF ~HasPrefixHttp(imgURL) /\ urlParse(pgURL).ok
    THEN <<urlParse(pgURL).Scheme, "://", urlParse(pgURL).Host>> \o imgURL
    ELSE imgURL

LocatorRest ==
    /\ locImageURL = <<>>
    /\ located = [err |-> "", url |-> <<>>]

\* No call of extractImageFromPage is under way.
LocatorIdle ==
    /\ lpc = "idle"
    /\ doc = <<>>
    /\ locPageURL = <<>>
    /\ LocatorRest

LocatorInit ==
    /\ lpc = "start"
    /\ doc \in Documents
    /\ locPageURL \in LocPageURLs
    /\ LocatorRest

\* Lines 176-185: chromedp.Run returns an error.
LocatorRunFails ==
    /\ UNCHANGED <<pipeVars, fetchVars, storeVars, handlerVars>>
    /\ lpc = "start"
    /\ located' = [err |-> "run", url |-> <<>>]
    /\ lpc' = "returned"
    /\ UNCHANGED <<doc, locPageURL, locImageURL>>

\* Lines 176-181: the page is loaded and the script evaluated.
LocatorEvaluate ==
    /\ UNCHANGED <<pipeVars, fetchVars, storeVars, handlerVars>>
    /\ lpc = "start"
    /\ Navigable(locPageURL)
    /\ locImageURL' = selectorJS(doc)
    /\ lpc' = "evaluated"
    /\ UNCHANGED <<doc, locPageURL, located>>

\* Lines 187-201: trim, refuse the empty string, make the URL absolute.
LocatorReturn ==
    /\ UNCHANGED <<pipeVars, fetchVars, storeVars, handlerVars>>
    /\ lpc = "evaluated"
    /\ located' = IF TrimSpace(locImageURL) = <<>>
                  THEN [err |-> "no image found on page", url |-> <<>>]
                  ELSE [err |-> "", url |-> EnsureAbsolute(TrimSpace(locImageURL), locPageURL)]
    /\ lpc' = "returned"
    /\ UNCHANGED <<doc, locPageURL, locImageURL>>

LocatorNext ==
    \/ LocatorRunFails
    \/ LocatorEvaluate
    \/ LocatorReturn

\* ------------------------------------------------ SpecFetch: downloadImage

\* Most chunks a response body is read in.
MaxBody == 2

\* http.StatusOK
StatusOK == 200

\* http.Get follows redirects and gives up at the tenth request.
RedirectLimit == 10

\* The status codes of the responses http.Get hands back.
StatusCodes == {200, 201, 204, 206, 304, 404, 500}

\* A body is the sequence of its chunks.
Bodies == {[k \in 1..n |-> k] : n \in 0..MaxBody}

NoFile == [exists |-> FALSE, data |-> <<>>]

\* An image written by an earlier download.
OldImage == [exists |-> TRUE, data |-> <<0>>]

FetchRest ==
    /\ resp = [StatusCode |-> 0, Body |-> <<>>]
    /\ requests = 0
    /\ dlErr = ""

\* No call of downloadImage is under way.
FetchIdle ==
    /\ dpc = "idle"
    /\ destFile = NoFile
    /\ destBefore = NoFile
    /\ FetchRest

FetchInit ==
    /\ dpc = "get"
    /\ destFile \in {NoFile, OldImage}
    /\ destBefore = destFile
    /\ FetchRest

\* Lines 206-209: http.Get sends a request; it fails, is redirected, or
\* gives a response.
FetchGet ==
    /\ UNCHANGED <<pipeVars, locVars, storeVars, handlerVars>>
    /\ dpc = "get"
    /\ requests' = requests + 1
    /\ \E outcome \in {"failed", "redirect", "response"} :
          CASE outcome = "failed" ->
                 /\ dlErr' = "get"
                 /\ dpc' = "returned"
                 /\ resp' = resp
            [] outcome = "redirect" ->
                 /\ dlErr' = IF requests + 1 >= RedirectLimit THEN "get" ELSE dlErr
                 /\ dpc' = IF requests + 1 >= RedirectLimit THEN "returned" ELSE "get"
                 /\ resp' = resp
            [] outcome = "response" ->
                 /\ \E r \in [StatusCode : StatusCodes, Body : Bodies] : resp' = r
                 /\ dpc' = "status"
                 /\ dlErr' = dlErr
    /\ UNCHANGED <<destFile, destBefore>>

\* The status is looked at after os.Create has made the file.
FetchCheckStatusAfterCreate ==
    /\ UNCHANGED <<pipeVars, locVars, storeVars, handlerVars>>
    /\ dpc = "status"
    /\ IF resp.StatusCode # StatusOK
       THEN /\ dlErr' = "status" /\ dpc' = "returned"
            /\ destFile' = [exists |-> TRUE, data |-> <<>>]
       ELSE /\ dlErr' = dlErr /\ dpc' = "create"
            /\ destFile' = destFile
    /\ UNCHANGED <<resp, requests, destBefore>>

\* Lines 212-214: any status but 200 is an error.
FetchCheckStatus ==
    /\ UNCHANGED <<pipeVars, locVars, storeVars, handlerVars>>
    /\ dpc = "status"
    /\ IF resp.StatusCode # StatusOK
       THEN dlErr' = "status" /\ dpc' = "returned"
       ELSE dlErr' = dlErr /\ dpc' = "create"
    /\ UNCHANGED <<resp, requests, destFile, destBefore>>

\* Lines 216-219: os.Create makes the file or truncates the one there.
FetchCreate ==
    /\ UNCHANGED <<pipeVars, locVars, storeVars, handlerVars>>
    /\ dpc = "create"
    /\ \E ok \in BOOLEAN :
          IF ok
          THEN /\ destFile' = [exists |-> TRUE, data |-> <<>>]
               /\ dpc' = "copy"
               /\ dlErr' = dlErr
          ELSE /\ destFile' = destFile
               /\ dpc' = "returned"
               /\ dlErr' = "create"
    /\ UNCHANGED <<resp, requests, destBefore>>

\* Line 222: io.Copy writes the next chunk of the body to the file.
FetchCopyChunk ==
    /\ UNCHANGED <<pipeVars, locVars, storeVars, handlerVars>>
    /\ dpc = "copy"
    /\ Len(destFile.data) < Len(resp.Body)
    /\ destFile' = [destFile EXCEPT !.data = Append(@, resp.Body[Len(@) + 1])]
    /\ UNCHANGED <<dpc, resp, requests, destBefore, dlErr>>

\* Lines 222-223: the body's stream breaks; io.Copy's error is returned.
FetchCopyFails ==
    /\ UNCHANGED <<pipeVars, locVars, storeVars, handlerVars>>
    /\ dpc = "copy"
    /\ Len(destFile.data) < Len(resp.Body)
    /\ dlErr' = "copy"
    /\ dpc' = "returned"
    /\ UNCHANGED <<resp, requests, destFile, destBefore>>

\* Lines 222-223: the body is at its end; nil is returned.
FetchCopyDone ==
    /\ UNCHANGED <<pipeVars, locVars, storeVars, handlerVars>>
    /\ dpc = "copy"
    /\ Len(destFile.data) = Len(resp.Body)
    /\ dpc' = "returned"
    /\ UNCHANGED <<resp, requests, destFile, destBefore, dlErr>>

FetchNext ==
    \/ FetchGet
    \/ FetchCheckStatus
    \/ FetchCreate
    \/ FetchCopyChunk
    \/ FetchCopyFails
    \/ FetchCopyDone

\* ------- SpecStore: saveNewslettersToFile and loadNewslettersFromFile

\* Most records of a collection.
MaxRecs == 2

\* A Newsletter record, by its ID and its Title.
Recs == [ID : {"a", "b"}, Title : {"t1", "t2"}]

NilSlice == [isNil |-> TRUE, recs |-> <<>>]

\* A []Newsletter: the nil slice, or a slice of records.
Collections ==
    {NilSlice} \cup
    {[isNil |-> FALSE, recs |-> l] : l \in UNION {[1..n -> Recs] : n \in 0..MaxRecs}}

\* The JSON text of one record.
MarshalRec(r) == <<"{", r.ID, r.Title, "}">>

RECURSIVE MarshalList(_)
MarshalList(l) ==
    IF l = <<>> THEN <<>>
    ELSE IF Len(l) = 1 THEN MarshalRec(l[1])
    ELSE MarshalRec(l[1]) \o <<",">> \o MarshalList(Tail(l))

\* json.MarshalIndent of a []Newsletter: null for the nil slice, an array
\* of objects otherwise.
Marshal(c) ==
    IF c.isNil THEN <<"null">> ELSE <<"[">> \o MarshalList(c.recs) \o <<"]">>

\* The records of the text between "[" and "]"; ok is FALSE when the text
\* is not a comma-separated list of objects.
RECURSIVE ParseRecs(_)
ParseRecs(t) ==
    IF t = <<>> THEN [ok |-> TRUE, recs |-> <<>>]
    ELSE IF /\ Len(t) >= 4
            /\ t[1] = "{"
            /\ [ID |-> t[2], Title |-> t[3]] \in Recs
            /\ t[4] = "}"
         THEN LET r == [ID |-> t[2], Title |-> t[3]]
                  rest == SubSeq(t, 5, Len(t))
              IN  IF rest = <<>> THEN [ok |-> TRUE, recs |-> <<r>>]
                  ELSE IF Len(rest) >= 2 /\ rest[1] = ","
                       THEN LET more == ParseRecs(Tail(rest))
                            IN  [ok |-> more.ok /\ more.recs # <<>>,
                                 recs |-> <<r>> \o more.recs]
                       ELSE [ok |-> FALSE, recs |-> <<>>]
         ELSE [ok |-> FALSE, recs |-> <<>>]

\* json.Unmarshal(data, &newsletters) into a nil slice: null leaves it nil,
\* an array fills it, anything else is an error.
Unmarshal(d) ==
    IF d = <<"null">> THEN [ok |-> TRUE, val |-> NilSlice]
    ELSE IF Len(d) >= 2 /\ d[1] = "[" /\ d[Len(d)] = "]"
         THEN LET p == ParseRecs(SubSeq(d, 2, Len(d) - 1))
              IN  IF p.ok THEN [ok |-> TRUE, val |-> [isNil |-> FALSE, recs |-> p.recs]]
                  ELSE [ok |-> FALSE, val |-> NilSlice]
         ELSE [ok |-> FALSE, val |-> NilSlice]

\* Lines 650-666: what loadNewslettersFromFile returns for the file f.
loadNewslettersFromFile(f) ==
    IF ~f.exists THEN [err |-> "", val |-> [isNil |-> FALSE, recs |-> <<>>]]
    ELSE IF ~Unmarshal(f.data).ok THEN [err |-> "unmarshal", val |-> NilSlice]
    ELSE [err |-> "", val |-> Unmarshal(f.data).val]

\* The file opened for appending: what it holds stays.
OpenAppend(f) == [exists |-> TRUE, data |-> f.data]

\* os.WriteFile opens with O_WRONLY|O_CREATE|O_TRUNC: the file is made, or
\* emptied.
OpenTruncate(f) == [exists |-> TRUE, data |-> <<>>]

\* newsletters.json as earlier saves left it: missing, or a whole collection.
MetaFiles == {NoFile} \cup {[exists |-> TRUE, data |-> Marshal(c)] : c \in Collections}

StoreRest ==
    /\ jsonData = <<>>
    /\ saveErr = ""
    /\ loaded = [when |-> "never", err |-> "", val |-> NilSlice]

\* No call of saveNewslettersToFile is under way.
StoreIdle ==
    /\ spc = "idle"
    /\ newsletters = NilSlice
    /\ metaFile = NoFile
    /\ metaBefore = NoFile
    /\ StoreRest

StoreInit ==
    /\ spc = "marshal"
    /\ newsletters \in Collections
    /\ metaFile \in MetaFiles
    /\ metaBefore = metaFile
    /\ StoreRest

\* Lines 642-645: json.MarshalIndent (it has no error for a []Newsletter).
SaveMarshal ==
    /\ UNCHANGED <<pipeVars, locVars, fetchVars, handlerVars>>
    /\ spc = "marshal"
    /\ jsonData' = Marshal(newsletters)
    /\ spc' = "open"
    /\ UNCHANGED <<newsletters, metaFile, metaBefore, saveErr, loaded>>

\* Line 647, os.WriteFile: the file is opened and truncated, or the open
\* fails and the file stays as it was.
SaveOpen ==
    /\ UNCHANGED <<pipeVars, locVars, fetchVars, handlerVars>>
    /\ spc = "open"
    /\ \E ok \in BOOLEAN :
          IF ok
          THEN /\ metaFile' = OpenTruncate(metaFile)
               /\ spc' = "write"
               /\ saveErr' = saveErr
          ELSE /\ metaFile' = metaFile
               /\ spc' = "returned"
               /\ saveErr' = "open"
    /\ UNCHANGED <<newsletters, jsonData, metaBefore, loaded>>

\* Line 647, os.WriteFile: the bytes are written; the write can stop after
\* any number of them with an error.
SaveWrite ==
    /\ UNCHANGED <<pipeVars, locVars, fetchVars, handlerVars>>
    /\ spc = "write"
    /\ \E n \in 0..Len(jsonData) :
          /\ metaFile' = [metaFile EXCEPT !.data = @ \o SubSeq(jsonData, 1, n)]
          /\ saveErr' = IF n = Len(jsonData) THEN "" ELSE "write"
    /\ spc' = "returned"
    /\ UNCHANGED <<newsletters, jsonData, metaBefore, loaded>>

\* Lines 650-666: a reader (the server starting, part_003:407) loads the file.
Load ==
    /\ UNCHANGED <<pipeVars, locVars, fetchVars, handlerVars>>
    /\ spc # "idle"
    /\ loaded' = [when |-> spc,
                  err |-> loadNewslettersFromFile(metaFile).err,
                  val |-> loadNewslettersFromFile(metaFile).val]
    /\ UNCHANGED <<spc, newsletters, jsonData, metaFile, metaBefore, saveErr>>

StoreNext ==
    \/ SaveMarshal
    \/ SaveOpen
    \/ SaveWrite
    \/ Load

\* ------------------------------------ SpecHandler: scrapeStore (main.go)

\* Number of scrape requests the server receives.
NumRequests == 2

Requests == 1..NumRequests

\* The records a run can scrape: the catalogs "a" and "b", as scraped now.
ScrapedRecs == {r \in Recs : r.Title = "t2"}

\* What ScrapeAndDownload can return as its slice: no record (the nil
\* slice) or one catalog.
ScrapedLists == {<<>>} \cup {<<r>> : r \in ScrapedRecs}

\* A slice as a collection: a slice nothing was appended to is nil.
AsCollection(l) == IF l = <<>> THEN NilSlice ELSE [isNil |-> FALSE, recs |-> l]

\* newsletters.json when the server starts: missing, or written by an
\* earlier run that found catalog "a".
StartFiles ==
    {NoFile,
     [exists |-> TRUE, data |-> Marshal(AsCollection(<<[ID |-> "a", Title |-> "t1"]>>))]}

\* What saveNewslettersToFile(c) can leave of the file f: f itself when the
\* file cannot be opened, a prefix of the JSON text of c when the write
\* fails (the empty one, or the text without its last byte), the whole
\* text when it succeeds.
FilesAfterSave(f, c) ==
    {f} \cup {[exists |-> TRUE, data |-> SubSeq(Marshal(c), 1, n)] :
                 n \in {0, Len(Marshal(c)) - 1, Len(Marshal(c))}}

\* part_003:478-485: the records of existing, each replaced by the scraped
\* record of the same ID if there is one, and the other scraped records.
MergeMap(existing, scraped) ==
    {r \in Range(existing) : \A k \in DOMAIN scraped : scraped[k].ID # r.ID}
    \cup Range(scraped)

\* The handler sends its response only when the goroutine has ended.
ResponseReadyAfterRun(r) == hpc[r] = "spawned" /\ gpc[r] \in {"done", "failed"}

\* part_003:498-505: after the go statement the handler builds and sends
\* the response.
ResponseReady(r) == hpc[r] = "spawned"

HandlerRest ==
    /\ hpc = [r \in Requests |-> "none"]
    /\ hresp = [r \in Requests |-> ""]
    /\ gpc = [r \in Requests |-> "none"]
    /\ scrapedNewsletters = [r \in Requests |-> <<>>]
    /\ existingMap = [r \in Requests |-> {}]

\* No server is running.
HandlerIdle ==
    /\ HandlerRest
    /\ memNewsletters = <<>>
    /\ memStart = <<>>

\* part_003:404-410, main: the global slice is loaded from the file.
HandlerInit ==
    /\ HandlerRest
    /\ memNewsletters = loadNewslettersFromFile(metaFile).val.recs
    /\ memStart = memNewsletters

\* part_003:458-463: a request arrives; the handler starts the goroutine.
HandlerSpawn(r) ==
    /\ UNCHANGED <<pipeVars, locVars, fetchVars, storeVars>>
    /\ hpc[r] = "none"
    /\ hpc' = [hpc EXCEPT ![r] = "spawned"]
    /\ gpc' = [gpc EXCEPT ![r] = "config"]
    /\ UNCHANGED <<hresp, scrapedNewsletters, existingMap, memNewsletters, memStart>>

\* part_003:498-505: the response with status "processing" is sent.
HandlerRespond(r) ==
    /\ UNCHANGED <<pipeVars, locVars, fetchVars, storeVars>>
    /\ ResponseReady(r)
    /\ hresp' = [hresp EXCEPT ![r] = "processing"]
    /\ hpc' = [hpc EXCEPT ![r] = "answered"]
    /\ UNCHANGED <<gpc, scrapedNewsletters, existingMap, memNewsletters, memStart>>

\* part_003:465-469: LoadScraperConfig; on an error the goroutine returns.
GoLoadConfig(r) ==
    /\ UNCHANGED <<pipeVars, locVars, fetchVars, storeVars>>
    /\ gpc[r] = "config"
    /\ \E ok \in BOOLEAN : gpc' = [gpc EXCEPT ![r] = IF ok THEN "run" ELSE "failed"]
    /\ UNCHANGED <<hpc, hresp, scrapedNewsletters, existingMap, memNewsletters, memStart>>

\* part_003:471-475, scraper.go:305-337: ScrapeAndDownload fails on the
\* catalog list; nothing is saved and the goroutine returns.
GoRunFails(r) ==
    /\ UNCHANGED <<pipeVars, locVars, fetchVars, storeVars>>
    /\ gpc[r] = "run"
    /\ gpc' = [gpc EXCEPT ![r] = "failed"]
    /\ UNCHANGED <<hpc, hresp, scrapedNewsletters, existingMap, memNewsletters, memStart>>

\* part_003:471, scraper.go:339-371: ScrapeAndDownload returns its records
\* after saving them to the file (an error of the save is only logged).
GoRunReturns(r) ==
    /\ UNCHANGED <<pipeVars, locVars, fetchVars>>
    /\ gpc[r] = "run"
    /\ \E l \in ScrapedLists :
          /\ scrapedNewsletters' = [scrapedNewsletters EXCEPT ![r] = l]
          /\ metaFile' \in FilesAfterSave(metaFile, AsCollection(l))
    /\ gpc' = [gpc EXCEPT ![r] = "returned"]
    /\ UNCHANGED <<spc, newsletters, jsonData, metaBefore, saveErr, loaded>>
    /\ UNCHANGED <<hpc, hresp, existingMap, memNewsletters, memStart>>

\* part_003:478-486: with no record the goroutine ends; otherwise the map
\* is built from the global slice and the scraped records.
GoMergeRead(r) ==
    /\ UNCHANGED <<pipeVars, locVars, fetchVars, storeVars>>
    /\ gpc[r] = "returned"
    /\ IF Len(scrapedNewsletters[r]) > 0
       THEN /\ existingMap' = [existingMap EXCEPT
                                 ![r] = MergeMap(memNewsletters, scrapedNewsletters[r])]
            /\ gpc' = [gpc EXCEPT ![r] = "make"]
       ELSE /\ existingMap' = existingMap
            /\ gpc' = [gpc EXCEPT ![r] = "done"]
    /\ UNCHANGED <<hpc, hresp, scrapedNewsletters, memNewsletters, memStart>>

\* part_003:488: newsletters = make([]Newsletter, 0, len(existingMap)).
GoMergeMake(r) ==
    /\ UNCHANGED <<pipeVars, locVars, fetchVars, storeVars>>
    /\ gpc[r] = "make"
    /\ memNewsletters' = <<>>
    /\ gpc' = [gpc EXCEPT ![r] = "append"]
    /\ UNCHANGED <<hpc, hresp, scrapedNewsletters, existingMap, memStart>>

\* part_003:489-491: the next record of the map, in the map's own order,
\* is appended to the global slice.
GoMergeAppend(r) ==
    /\ UNCHANGED <<pipeVars, locVars, fetchVars, storeVars>>
    /\ gpc[r] = "append"
    /\ \E rec \in existingMap[r] :
          /\ memNewsletters' = Append(memNewsletters, rec)
          /\ existingMap' = [existingMap EXCEPT ![r] = @ \ {rec}]
    /\ UNCHANGED <<hpc, hresp, gpc, scrapedNewsletters, memStart>>

\* part_003:489-496: the map is exhausted; the goroutine ends.
GoMergeDone(r) ==
    /\ UNCHANGED <<pipeVars, locVars, fetchVars, storeVars>>
    /\ gpc[r] = "append"
    /\ existingMap[r] = {}
    /\ gpc' = [gpc EXCEPT ![r] = "done"]
    /\ UNCHANGED <<hpc, hresp, scrapedNewsletters, existingMap, memNewsletters, memStart>>

HandlerNext ==
    \/ \E r \in Requests : HandlerSpawn(r)
    \/ \E r \in Requests : HandlerRespond(r)
    \/ \E r \in Requests : GoLoadConfig(r)
    \/ \E r \in Requests : GoRunFails(r)
    \/ \E r \in Requests : GoRunReturns(r)
    \/ \E r \in Requests : GoMergeRead(r)
    \/ \E r \in Requests : GoMergeMake(r)
    \/ \E r \in Requests : GoMergeAppend(r)
    \/ \E r \in Requests : GoMergeDone(r)

\* ------------------------------------------- SpecRun: ScrapeAndDownload

\* Largest number of catalog links the list page shows.
MaxCatalogURLs == 2

\* config.StoreName in lower case.
StoreLower == "kaufland"

\* The days a page text can name or the clock can show: dd, mm, yyyy.
Days == {<<"02", "11", "2026">>, <<"09", "11", "2026">>}

\* The HTML of a catalog's first page, by the dd.mm.yyyy dates the regular
\* expression finds in it (FindAllStringSubmatch(html, 2): at most two).
CatalogPages == UNION {[1..n -> Days] : n \in 0..2}

\* fmt.Sprintf("%s-%s-%s", yyyy, mm, dd); time.Now().Format("2006-01-02").
FormatDate(d) == <<d[3], "-", d[2], "-", d[1]>>

\* Lines 589-598: the first date replaces ValidFrom when the page holds
\* two dates at least.
extractDates(validFrom, html) ==
    IF Len(html) >= 2 THEN FormatDate(html[1]) ELSE validFrom

\* strings.ReplaceAll(s, "-", "")
ReplaceAllDashes(s) == SelectSeq(s, LAMBDA c : c # "-")

\* Line 512: the id of a newsletter.
NewsletterID(validFrom) == <<StoreLower, "-">> \o ReplaceAllDashes(validFrom)

\* Line 513: filepath.Join("../newsletters", id).
NewsletterDir(id) == <<"..", "/", "newsletters", "/">> \o id

\* Lines 341-349: maxCatalogs, all the catalogs when the configuration
\* gives 0.
RunLimit ==
    LET m == IF maxCatalogs = 0 THEN Len(catalogURLs) ELSE maxCatalogs
    IN  IF m < Len(catalogURLs) THEN m ELSE Len(catalogURLs)

\* No run of ScrapeAndDownload is under way.
RunIdle ==
    /\ rpc = "idle"
    /\ catalogURLs = <<>>
    /\ maxCatalogs = 0
    /\ runToday = <<>>
    /\ runIdx = 0
    /\ runNewsletters = <<>>
    /\ runLog = <<>>

\* Lines 337-344: the list page gave its catalog links (distinct ones,
\* extractCatalogURLs keeps the first of equal links); the loop begins.
RunInit ==
    /\ rpc = "loop"
    /\ catalogURLs \in UNION {[1..n -> CatalogPages] : n \in 0..MaxCatalogURLs}
    /\ maxCatalogs \in 0..MaxCatalogURLs
    /\ runToday \in Days
    /\ runIdx = 1
    /\ runNewsletters = <<>>
    /\ runLog = <<>>

\* Lines 352-356: scrapeCatalogPages fails; the catalog is skipped.
RunSkipScrape ==
    /\ UNCHANGED <<urlVars, cfgVars, catVars, locVars, fetchVars, storeVars, handlerVars>>
    /\ rpc = "loop"
    /\ runIdx <= RunLimit
    /\ runIdx' = runIdx + 1
    /\ runLog' = Append(runLog, [outcome |-> "scrapeErr", dir |-> <<>>, wrote |-> FALSE])
    /\ UNCHANGED <<rpc, catalogURLs, maxCatalogs, runToday, runNewsletters>>

\* Lines 358-362, 511-516: MkdirAll fails; the catalog is skipped.
RunSkipDownload ==
    /\ UNCHANGED <<urlVars, cfgVars, catVars, locVars, fetchVars, storeVars, handlerVars>>
    /\ rpc = "loop"
    /\ runIdx <= RunLimit
    /\ runIdx' = runIdx + 1
    /\ LET validFrom == extractDates(FormatDate(runToday), catalogURLs[runIdx])
           dir == NewsletterDir(NewsletterID(validFrom))
       IN  runLog' = Append(runLog, [outcome |-> "mkdirErr", dir |-> dir, wrote |-> FALSE])
    /\ UNCHANGED <<rpc, catalogURLs, maxCatalogs, runToday, runNewsletters>>

\* Lines 352-364, 419-425, 510-567: the catalog is scraped, its images are
\* written into the directory of its id (wrote: one image at least was
\* stored), and its record is appended.
RunAppend ==
    /\ UNCHANGED <<urlVars, cfgVars, catVars, locVars, fetchVars, storeVars, handlerVars>>
    /\ rpc = "loop"
    /\ runIdx <= RunLimit
    /\ LET validFrom == extractDates(FormatDate(runToday), catalogURLs[runIdx])
           id == NewsletterID(validFrom)
       IN  /\ runNewsletters' = Append(runNewsletters, [ID |-> id, Title |-> "t2"])
           /\ \E wrote \in BOOLEAN :
                 runLog' = Append(runLog, [outcome |-> "ok", dir |-> NewsletterDir(id),
                                           wrote |-> wrote])
    /\ runIdx' = runIdx + 1
    /\ UNCHANGED <<rpc, catalogURLs, maxCatalogs, runToday>>

\* Lines 346-349, 367-371: the loop has ended; the slice is saved and
\* returned.
RunReturn ==
    /\ UNCHANGED <<urlVars, cfgVars, catVars, locVars, fetchVars, handlerVars>>
    /\ rpc = "loop"
    /\ runIdx > RunLimit
    /\ rpc' = "returned"
    /\ metaFile' \in FilesAfterSave(metaFile, AsCollection(runNewsletters))
    /\ UNCHANGED <<spc, newsletters, jsonData, metaBefore, saveErr, loaded>>
    /\ UNCHANGED <<catalogURLs, maxCatalogs, runToday, runIdx, runNewsletters, runLog>>

RunNext == RunSkipScrape \/ RunSkipDownload \/ RunAppend \/ RunReturn

\* ----------------------------------------------------------- specifications

\* The URL templater on every URL of URLs.
AuxIdle == LocatorIdle /\ FetchIdle /\ StoreIdle /\ HandlerIdle /\ RunIdle

TemplaterStart == URLInit /\ ConfigIdle /\ CatalogIdle /\ AuxIdle

SpecURL == TemplaterStart /\ [][URLNext]_vars

\* One run of ScrapeAndDownloadFromConfig.
ConfigStart == URLIdle /\ ConfigInit /\ CatalogIdle /\ AuxIdle

SpecConfig == ConfigStart /\ [][ConfigNext]_vars

\* The run's goroutine is never suspended for ever: while a statement of
\* the run can be executed, one is.
SpecConfigFair == ConfigStart /\ [][ConfigNext]_vars /\ WF_vars(ConfigNext)

\* One catalog through scrapeCatalogPages and downloadCatalogImages.
Init == URLIdle /\ ConfigIdle /\ CatalogInit /\ AuxIdle

Spec == Init /\ [][CatalogNext]_vars

\* downloadCatalogImages on a catalog of PoolTasks page images.
PoolStart == URLIdle /\ ConfigIdle /\ PoolInit /\ AuxIdle

SpecPool == PoolStart /\ [][PoolNext]_vars

\* The pool from the states in which the downloads of the first h page
\* images hang.  The Go scheduler runs every goroutine that can take a
\* step: the pool does not stop while one of its steps is possible.
PoolHangStart == URLIdle /\ ConfigIdle /\ PoolHangInit /\ AuxIdle

SpecPoolFair == PoolHangStart /\ [][PoolWorkerNext]_vars /\ WF_vars(PoolWorkerNext)

\* The goroutines of downloadCatalogImages from the full pool, when every
\* download returns.  The Go scheduler runs every goroutine that can take
\* a step.
PoolFullStart == URLIdle /\ ConfigIdle /\ PoolFullInit /\ AuxIdle

SpecPoolReturns == PoolFullStart /\ [][PoolReturnsNext]_vars /\ WF_vars(PoolReturnsNext)

\* The Lidl-only downloader on its own.
LidlStart == URLIdle /\ ConfigIdle /\ LidlInit /\ AuxIdle

SpecLidl == LidlStart /\ [][LidlNext]_vars

\* The pipelines' variables while a function is explored on its own.
PipeIdle == URLIdle /\ ConfigIdle /\ CatalogIdle /\ RunIdle

\* extractImageFromPage on every document of Documents.
LocatorStart == PipeIdle /\ LocatorInit /\ FetchIdle /\ StoreIdle /\ HandlerIdle

SpecLocator == LocatorStart /\ [][LocatorNext]_vars

\* downloadImage on a path with or without a file.
FetchStart == PipeIdle /\ LocatorIdle /\ FetchInit /\ StoreIdle /\ HandlerIdle

SpecFetch == FetchStart /\ [][FetchNext]_vars

\* saveNewslettersToFile on every collection, over every earlier file, with
\* a reader that loads the file at any time.
StoreStart == PipeIdle /\ LocatorIdle /\ FetchIdle /\ StoreInit /\ HandlerIdle

SpecStore == StoreStart /\ [][StoreNext]_vars

\* The server after its start, receiving NumRequests scrape requests.
HandlerStart ==
    /\ PipeIdle /\ LocatorIdle /\ FetchIdle
    /\ spc = "idle"
    /\ newsletters = NilSlice
    /\ metaFile \in StartFiles
    /\ metaBefore = metaFile
    /\ StoreRest
    /\ HandlerInit

SpecHandler == HandlerStart /\ [][HandlerNext]_vars

\* One run of ScrapeAndDownload over the catalogs of a store, with no
\* newsletters.json before it.
RunStart ==
    /\ URLIdle /\ ConfigIdle /\ CatalogIdle
    /\ LocatorIdle /\ FetchIdle /\ StoreIdle /\ HandlerIdle
    /\ RunInit

SpecRun == RunStart /\ [][RunNext]_vars

\* ------------------------------------------------------------------ claims

StrictlyIncreasing(f) == \A i, j \in DOMAIN f : i < j => f[i] < f[j]

\* Some match of /page/\d+ exists in u.
HasPagePattern(u) == \E i \in 1..Len(u) : MatchAt(u, i)

FailedVisits == {k \in DOMAIN visits : visits[k].kind # "url"}

\* C1: when exactly one page of the range fails to render or to give an
\* image, every other page gives one and every download succeeds, the
\* returned page list carries the original page numbers of the other pages
\* and no file with the failed page's number was written.
C1_FailedPageLeavesGap ==
    (/\ phase = "returned"
     /\ Len(visits) = MaxPages
     /\ MaxPages >= 2
     /\ Cardinality(FailedVisits) = 1
     /\ \A k \in DOMAIN visits \ FailedVisits : visits[k].url = visits[k].page
     /\ \A w \in DOMAIN wpc : wpc[w] = "done")
    => /\ {pg.PageNumber : pg \in Range(newsletter.Pages)}
             = {visits[k].page : k \in DOMAIN visits \ FailedVisits}
       /\ \A k \in FailedVisits : PageFile(visits[k].page) \notin DOMAIN dfiles

\* C2: whatever the order in which the download goroutines complete, the
\* page list of the returned record has strictly increasing page numbers.
C2_PagesStrictlyIncreasing ==
    phase = "returned" =>
        StrictlyIncreasing([k \in DOMAIN newsletter.Pages |-> newsletter.Pages[k].PageNumber])

\* A run returned three or more pages whose downloads completed in an order
\* that is not the page order.
C2_Witness ==
    /\ phase = "returned"
    /\ Len(newsletter.Pages) >= 3
    /\ \E i, j \in DOMAIN arrival : i < j /\ arrival[i] > arrival[j]
    /\ arrival[1] > arrival[Len(arrival)]

\* C3: at most 5 page downloads are in flight at any time.
C3_AtMostFiveInFlight ==
    Cardinality({w \in DOMAIN wpc : wpc[w] = "fetch"}) <= 5

\* Five downloads are in flight and a sixth goroutine waits for a slot.
C3_Witness ==
    /\ Cardinality({w \in DOMAIN wpc : wpc[w] = "fetch"}) = 5
    /\ \E w \in DOMAIN wpc : wpc[w] = "wait"

\* C4: a run requests the page indices of [first, last] each at most once,
\* in ascending order, with at most one render in flight, and requests a
\* page only after the attempt for the page before it has completed.
C4_SequentialAscending ==
    /\ inflight <= 1
    /\ StrictlyIncreasing(requested)
    /\ \A k \in DOMAIN requested :
          firstPageNum <= requested[k] /\ requested[k] <= lastPageNum
    /\ Len(outcomes) <= Len(requested)
    /\ Len(requested) <= Len(outcomes) + 1
    /\ (cpc \in {"loop", "sleep", "returned"} => Len(outcomes) = Len(requested))
    /\ (inflight = 1 => cpc \in {"coverRender", "pageRender"})

\* The third page of a range is being rendered, the two before it are done.
C4_Witness ==
    /\ cpc = "pageRender"
    /\ inflight = 1
    /\ Len(requested) = 3
    /\ Len(outcomes) = 2

\* C5: once three consecutive pages have each resolved to no image URL, or
\* all three to the same image URL, no later page index is requested.
C5_StopsAfterThreeEmptyOrSame ==
    \A k \in DOMAIN resolved :
        (/\ k + 2 <= Len(resolved)
         /\ resolved[k] = resolved[k + 1]
         /\ resolved[k + 1] = resolved[k + 2])
        => Len(requested) <= k + 2

\* C6: every page whose own download succeeded is in the returned record
\* under its own page number and path, and its file holds its own image,
\* whichever downloads of other pages failed.
C6_OtherPagesKept ==
    /\ \A w \in DOMAIN wpc :
          wpc[w] \in {"fetched", "locked", "done"} =>
             /\ PageFile(w) \in DOMAIN dfiles
             /\ dfiles[PageFile(w)] = PageImages[w]
    /\ phase = "returned" =>
          \A w \in DOMAIN wpc :
             wpc[w] = "done" =>
                [PageNumber |-> w, ImageURL |-> NewsletterPath(PageFile(w))]
                   \in Range(newsletter.Pages)

\* The download of a page failed, those of the pages before and after it
\* succeeded, and the record was returned.
C6_Witness ==
    /\ phase = "returned"
    /\ \E k \in DOMAIN wpc :
          /\ k - 1 \in DOMAIN wpc
          /\ k + 1 \in DOMAIN wpc
          /\ wpc[k] = "failed"
          /\ wpc[k - 1] = "done"
          /\ wpc[k + 1] = "done"

\* C7: a page that fails (render error, no image, download error) does not
\* end the run: the run returns nil and has requested every page index of
\* the range, the ones after the failed page included.
C7_FailureDoesNotAbort ==
    (/\ cpc = "returned"
     /\ \E k \in DOMAIN outcomes : outcomes[k] # "ok")
    => /\ runErr = "nil"
       /\ \A n \in firstPageNum..lastPageNum : n \in Range(requested)

\* A run returned after a render error, an empty page and a failed download,
\* each followed by a later page.
C7_Witness ==
    /\ cpc = "returned"
    /\ \A kind \in {"err", "empty", "dlfail"} :
          \E k \in DOMAIN outcomes : k < Len(outcomes) /\ outcomes[k] = kind
    /\ outcomes[Len(outcomes)] = "ok"

\* C8: when first_page or last_page holds no /page/<digits>, the run returns
\* an error, and no page of the range is rendered or downloaded.
C8_MalformedRangeIsFatal ==
    (~HasPagePattern(config.FirstPage) \/ ~HasPagePattern(config.LastPage))
    => /\ requested = <<>>
       /\ DOMAIN cfiles \subseteq {CoverFile}
       /\ cpc \notin {"loop", "pageRender", "pageLocated", "pageDownload", "sleep"}
       /\ (cpc = "returned" => runErr = "error")

\* A run whose first_page is well-formed and whose last_page is not has
\* downloaded the cover and returned.
C8_Witness ==
    /\ HasPagePattern(config.FirstPage)
    /\ ~HasPagePattern(config.LastPage)
    /\ cpc = "returned"
    /\ coverStatus = "ok"

\* C9: a cover that could not be extracted or downloaded does not end the
\* run: with a well-formed page range the run returns nil, has requested
\* every page of the range, and has written no cover file.
C9_CoverFailureNotFatal ==
    coverStatus \in {"extractFailed", "downloadFailed"}
    => /\ CoverFile \notin DOMAIN cfiles
       /\ (cpc = "returned" /\ HasPagePattern(config.FirstPage)
                            /\ HasPagePattern(config.LastPage))
          => /\ runErr = "nil"
             /\ Range(requested) = firstPageNum..lastPageNum

\* A run whose cover download failed has returned after downloading pages.
C9_Witness ==
    /\ coverStatus = "downloadFailed"
    /\ cpc = "returned"
    /\ Len(requested) >= 2
    /\ \E k \in DOMAIN outcomes : outcomes[k] = "ok"

\* C10: for every URL that holds the page pattern, building the page URL
\* from the URL and its own extracted page number gives the URL back.
C10_RoundTrip ==
    tpc = "built" => built = templateURL

\* The positions of templateURL at which /page/\d+ matches.
PageSegments(u) == {i \in 1..Len(u) : MatchAt(u, i)}

\* C11: a template URL with more than one /page/<digits> segment is rejected:
\* buildPageURL gives a URL only for a template with exactly one segment.
C11_MultiSegmentRejected ==
    tpc = "built" => Cardinality(PageSegments(templateURL)) = 1

\* A run over the page range 1..5 has returned, every page having resolved
\* its own image and every page download having succeeded.
FivePagesAllOk ==
    /\ cpc = "returned"
    /\ runErr = "nil"
    /\ firstPageNum = 1
    /\ lastPageNum = 5
    /\ resolved = <<1, 2, 3, 4, 5>>
    /\ outcomes = [k \in 1..5 |-> "ok"]

LargeImgs == {i \in DOMAIN doc : IsLarge(doc[i])}

\* The selectors of the chain that match some img of doc.
MatchingSelectors ==
    {Selectors[k] : k \in {j \in DOMAIN Selectors : querySelector(doc, Selectors[j]) # 0}}

\* C13: the selector chain is consulted only when the size-ranked scan keeps
\* no image: when it keeps one, the script's result is the source of a kept
\* image, whatever the selectors match.  When it keeps none and `main img`
\* is the only selector that matches, the result is the source of the image
\* `main img` matches (no URL when that source is empty or an .svg), and the
\* URL returned is that source made absolute.
C13_ChainOnlyAfterSizeScan ==
    LET m == querySelector(doc, "main img")
    IN  /\ (lpc = "evaluated" /\ LargeImgs # {})
           => \E i \in LargeImgs : locImageURL = doc[i].src
        /\ (lpc = "evaluated" /\ LargeImgs = {} /\ MatchingSelectors = {"main img"})
           => locImageURL = IF Usable(doc, m) THEN doc[m].src ELSE <<>>
        /\ (/\ lpc = "returned"
            /\ located.err = ""
            /\ LargeImgs = {}
            /\ MatchingSelectors = {"main img"})
           => located.url = EnsureAbsolute(doc[m].src, locPageURL)

\* A document without a large image whose second img, inside main, is the
\* only one a selector matches; its source was returned.
C13_Witness ==
    /\ lpc = "returned"
    /\ located.err = ""
    /\ LargeImgs = {}
    /\ MatchingSelectors = {"main img"}
    /\ Len(doc) = 2
    /\ querySelector(doc, "main img") = 2
    /\ Usable(doc, 1)
    /\ doc[1].src # doc[2].src
    /\ located.url = doc[2].src

\* An absolute URL: scheme, "://", host.
IsAbsoluteURL(u) == Len(u) >= 3 /\ u[1] \in {"http", "https"} /\ u[2] = "://"

\* C14: every URL extractImageFromPage returns is absolute, and a source
\* that is not absolute is returned prefixed with the scheme and the host of
\* the page it was extracted from.
C14_ReturnedURLAbsolute ==
    (lpc = "returned" /\ located.err = "")
    => /\ IsAbsoluteURL(located.url)
       /\ ~HasPrefixHttp(locImageURL)
          => located.url = <<locPageURL[1], "://", locPageURL[3]>> \o locImageURL

\* C15: downloadImage sends exactly one GET, returns no status error for a
\* response whose status is in the 200 range, and returns nil only for such
\* a response.
C15_SuccessForEvery2xx ==
    dpc = "returned" =>
        /\ requests = 1
        /\ dlErr = "status" => resp.StatusCode \notin 200..299
        /\ dlErr = "" => resp.StatusCode \in 200..299

\* C16: after a download whose body stream broke, filePath holds no file, a
\* complete image (the whole body), or the file that was there before.
C16_NoPartialFile ==
    (dpc = "returned" /\ dlErr = "copy")
    => \/ ~destFile.exists
       \/ destFile.data = resp.Body
       \/ destFile = destBefore

\* C17: every run of ScrapeAndDownloadFromConfig eventually returns to its
\* caller, also when a download never answers.
C17_RunReturns == <>(cpc = "returned")

\* The position in requested of page n.
RequestOf(n) == CHOOSE k \in DOMAIN requested : requested[k] = n

\* C18: a page whose attempt started after the deadline was exceeded is not
\* rendered (its render returns an error), is not downloaded, and no file is
\* written for it.
C18_NoPageAfterDeadline ==
    \A n \in lateStarts :
        /\ n \in Range(requested)
        /\ RequestOf(n) <= Len(resolved) => resolved[RequestOf(n)] = 0
        /\ RequestOf(n) <= Len(outcomes) => outcomes[RequestOf(n)] = "err"
        /\ ConfigPageFile(n) \notin DOMAIN cfiles
        /\ ~(cpc \in {"pageLocated", "pageDownload"} /\ pageNum = n)

\* The deadline was exceeded after the second page was downloaded; the run
\* went through the rest of a range of four pages and returned.
C18_Witness ==
    /\ cpc = "returned"
    /\ deadline
    /\ Len(requested) = 4
    /\ lateStarts = {requested[3], requested[4]}
    /\ outcomes[1] = "ok"
    /\ outcomes[2] = "ok"

\* C19: whenever a reader loads the metadata file, during or after a save,
\* it gets a whole collection: the one stored before the save or the one
\* being saved, never an error and never a part of one.
C19_WriteAllOrNothing ==
    loaded.when # "never" =>
        /\ loaded.err = ""
        /\ loaded.val \in {loadNewslettersFromFile(metaBefore).val, newsletters}

\* C20: after saveNewslettersToFile(c) has returned nil, the file holds the
\* JSON text of c, a load returns c, and a record of the collection stored
\* before is loaded only if it is in c.
C20_SaveReplaces ==
    (spc = "returned" /\ saveErr = "")
    => /\ metaFile = [exists |-> TRUE, data |-> Marshal(newsletters)]
       /\ loadNewslettersFromFile(metaFile) = [err |-> "", val |-> newsletters]
       /\ loaded.when = "returned" =>
             /\ loaded.err = ""
             /\ loaded.val = newsletters
             /\ \A r \in Range(loadNewslettersFromFile(metaBefore).val.recs) :
                   r \in Range(loaded.val.recs) => r \in Range(newsletters.recs)

\* A save of one record over a file of two other records has returned nil
\* and the file was loaded afterwards.
C20_Witness ==
    /\ spc = "returned"
    /\ saveErr = ""
    /\ loaded.when = "returned"
    /\ Len(loadNewslettersFromFile(metaBefore).val.recs) = 2
    /\ Len(newsletters.recs) = 1
    /\ \A r \in Range(loadNewslettersFromFile(metaBefore).val.recs) :
          r \notin Range(newsletters.recs)
    /\ loaded.val = newsletters

\* C21: the handler answers a scrape request with status "processing"
\* without waiting for the run: as soon as the goroutine is started the
\* response can be sent, whatever the goroutine's position.  The global
\* slice is written only by a goroutine whose run has returned records.
C21_ProcessingWithoutWaiting ==
    /\ \A r \in Requests :
          /\ hpc[r] = "spawned" => ENABLED HandlerRespond(r)
          /\ hpc[r] = "answered" => hresp[r] = "processing"
          /\ hpc[r] # "answered" => hresp[r] = ""
    /\ memNewsletters # memStart =>
          \E r \in Requests :
             /\ gpc[r] \in {"append", "done"}
             /\ Len(scrapedNewsletters[r]) > 0

\* A request was answered while its run was still under way and the global
\* slice as at the start; another was answered after its goroutine had ended.
C21_Witness ==
    /\ hpc[1] = "answered"
    /\ gpc[1] = "run"
    /\ memNewsletters = memStart
    /\ hpc[2] = "answered"
    /\ gpc[2] = "done"

\* The page files of the catalog's directory.
LidlPageFiles == {f \in DOMAIN dfiles : f # CoverJpg}

\* C22: a record the Lidl downloader returns has at most 20 pages, each
\* numbered in 1..20, and the page files written are those of the first 20
\* page images.
C22_AtMostTwentyPages ==
    /\ Len(pages) <= LidlPageLimit
    /\ \A f \in LidlPageFiles :
          \E k \in 1..LidlPageLimit :
             /\ k <= Len(PageImages)
             /\ f = PageFile(k)
             /\ dfiles[f] = PageImages[k]
    /\ phase = "returned" =>
          /\ Len(newsletter.Pages) <= LidlPageLimit
          /\ \A k \in DOMAIN newsletter.Pages :
                newsletter.Pages[k].PageNumber \in 1..LidlPageLimit

\* A catalog of more than 20 page images, the first 20 all downloaded.
C22_Witness ==
    /\ phase = "returned"
    /\ Len(PageImages) > LidlPageLimit
    /\ Len(newsletter.Pages) = LidlPageLimit

\* The latest request of page n.
LatestRequestOf(n) ==
    CHOOSE k \in DOMAIN requested :
       /\ requested[k] = n
       /\ \A j \in DOMAIN requested : requested[j] = n => j <= k

\* The state of the task of page n, read off the run's position and the
\* outcomes recorded so far.
TaskState(n) ==
    IF n \notin Range(requested) THEN "Pending"
    ELSE IF LatestRequestOf(n) <= Len(outcomes)
         THEN IF outcomes[LatestRequestOf(n)] = "ok" THEN "Done" ELSE "Failed"
         ELSE CASE cpc = "pageRender" -> "Rendering"
                [] cpc = "pageLocated" -> "Located"
                [] cpc \in {"pageDownload", "blocked"} -> "Fetching"
                [] OTHER -> "Unknown"

TaskSteps ==
    {<<"Pending", "Rendering">>, <<"Rendering", "Located">>, <<"Rendering", "Failed">>,
     <<"Located", "Fetching">>, <<"Located", "Failed">>, <<"Fetching", "Done">>,
     <<"Fetching", "Failed">>}

\* C23: every step of the run leaves the state of each page task as it is
\* or moves it along Pending, Rendering, Located, Fetching, Done, or from
\* Rendering, Located or Fetching to Failed; nothing leaves Done or Failed.
C23_TaskMovesForward ==
    [][\A n \in Range(requested) \cup Range(requested') :
          \/ TaskState(n)' = TaskState(n)
          \/ <<TaskState(n), TaskState(n)'>> \in TaskSteps]_vars

\* One page is done, one has failed, a third is being fetched.
C23_Witness ==
    \E a, b, c \in Range(requested) :
       /\ TaskState(a) = "Done"
       /\ TaskState(b) = "Failed"
       /\ TaskState(c) = "Fetching"

\* C27: between any two consecutive page render requests of a run the
\* inter-page delay was taken: every request but the latest is followed by
\* a time.Sleep, whatever the outcome of its page.
C27_DelayBetweenRequests ==
    \A k \in DOMAIN requested : k < Len(requested) => k \in pauses

\* The visits that gave the image URL the visit before them gave.
RepeatVisits ==
    {k \in DOMAIN visits :
        /\ k > 1
        /\ visits[k].kind = "url"
        /\ visits[k - 1].kind = "url"
        /\ visits[k].url = visits[k - 1].url}

\* C24: a page that resolves to the image URL of the page before it is the
\* last page requested: the loop is over, and the URL is in the page list
\* once, as the image of the page before.
C24_StopsAtRepeatedImage ==
    \A k \in RepeatVisits :
       /\ k = Len(visits)
       /\ phase # "loop"
       /\ \E i \in DOMAIN PageImages :
             /\ PageImages[i] = visits[k].url
             /\ srcPage[i] = visits[k - 1].page
             /\ \A j \in DOMAIN PageImages : PageImages[j] = visits[k].url => j = i

\* The third page gave the image of the second; the catalog was returned.
C24_Witness ==
    /\ RepeatVisits = {3}
    /\ MaxPages > 3
    /\ phase = "returned"

\* The goroutines whose download never answers.
HungWorkers == {w \in DOMAIN wpc : wpc[w] = "hung"}

\* Every goroutine is over: its page is appended, its download has failed,
\* or its download hangs.
PoolSettled ==
    /\ phase \in {"pool", "returned"}
    /\ \A w \in DOMAIN wpc : wpc[w] \in {"done", "failed", "hung"}

\* C25: unless 5 downloads hang, the pool reaches a state in which every
\* other goroutine has had its slot and is over, the page of each download
\* that succeeded appended to pages.
C25_HangDoesNotBlockOthers ==
    <>(phase = "failed" \/ Cardinality(HungWorkers) >= SemCap \/ PoolSettled)

\* Four downloads hang; the other two were made and their pages appended.
C25_Witness ==
    /\ Cardinality(HungWorkers) = SemCap - 1
    /\ PoolSettled
    /\ Len(pages) = PoolTasks - (SemCap - 1)

\* The goroutines between mu.Lock() and mu.Unlock().
InAppend == {w \in DOMAIN wpc : wpc[w] = "locked"}

\* The goroutines whose download wrote its file.
Downloaded == {w \in DOMAIN wpc : wpc[w] \in {"fetched", "locked", "done"}}

\* C26: at most one goroutine is between mu.Lock() and mu.Unlock(), the one
\* that holds mu; once every goroutine is over, pages holds one entry for
\* each download that succeeded and no other.
C26_AppendExclusive ==
    /\ Cardinality(InAppend) <= 1
    /\ \A w \in InAppend : mu = w
    /\ (phase = "pool" /\ \A w \in DOMAIN wpc : wpc[w] \in {"done", "failed"}) =>
          /\ Len(pages) = Cardinality(Downloaded)
          /\ \A w \in Downloaded :
                /\ PageFile(w) \in DOMAIN dfiles
                /\ Cardinality({k \in DOMAIN pages : pages[k].PageNumber = w}) = 1

\* Every goroutine is over: four pages were appended, the first of them
\* after a later one, and two downloads failed.
C26_Witness ==
    /\ phase = "pool"
    /\ \A w \in DOMAIN wpc : wpc[w] \in {"done", "failed"}
    /\ Len(pages) = PoolTasks - 2
    /\ arrival[1] > arrival[2]

\* The images of doc the size-ranked scan has to keep.
WideAndTall == {i \in DOMAIN doc : WidthOf(doc[i]) > 500 /\ HeightOf(doc[i]) > 500}

\* C28: when some image of the document is more than 500 wide and more than
\* 500 high, the script's result is the source of such an image, of an area
\* no smaller than that of any other such image; an image with a side of
\* 500 or less is not kept: when there is no other, the result is the
\* selector chain's.
C28_LargestOfTheLarge ==
    lpc = "evaluated" =>
       IF WideAndTall # {}
       THEN \E i \in WideAndTall :
               /\ locImageURL = doc[i].src
               /\ \A j \in WideAndTall :
                     WidthOf(doc[j]) * HeightOf(doc[j]) <= WidthOf(doc[i]) * HeightOf(doc[i])
       ELSE locImageURL = SelectorChain(doc, 1)

\* A 600 x 501 image before an 800 x 800 one with another source: the
\* source of the second is the result.
C28_Witness ==
    /\ lpc = "evaluated"
    /\ Len(doc) = 2
    /\ WideAndTall = {1, 2}
    /\ WidthOf(doc[1]) * HeightOf(doc[1]) < WidthOf(doc[2]) * HeightOf(doc[2])
    /\ doc[1].src # doc[2].src
    /\ locImageURL = doc[2].src

\* The images under the k-th selector whose source is non-empty and not an
\* .svg.
UsableUnder(k) ==
    {i \in DOMAIN doc :
        /\ SelectorMatches(Selectors[k], doc[i])
        /\ doc[i].src # <<>>
        /\ ~IncludesSvg(doc[i].src)}

\* C29: when the size scan keeps nothing, the script's result is a non-empty,
\* non-svg source of an image under the first selector of the list that has
\* one; the result is empty only when no listed selector has one.
C29_FirstUsableSource ==
    (lpc = "evaluated" /\ WideAndTall = {}) =>
       IF \A k \in DOMAIN Selectors : UsableUnder(k) = {}
       THEN locImageURL = <<>>
       ELSE LET first == CHOOSE k \in DOMAIN Selectors :
                            /\ UsableUnder(k) # {}
                            /\ \A j \in DOMAIN Selectors : UsableUnder(j) # {} => k <= j
            IN  \E i \in UsableUnder(first) : locImageURL = doc[i].src

\* The position at which the source u first occurs in srcs.
FirstAt(srcs, u) ==
    CHOOSE i \in DOMAIN srcs : srcs[i] = u /\ \A j \in DOMAIN srcs : srcs[j] = u => i <= j

\* C30: the single-page scan is made only when no page gave an image to the
\* page loop; after a scan that succeeded the page list holds each non-empty
\* source the scan returned once, in the order of the first occurrences.
C30_BulkScanOnlyAsFallback ==
    /\ bulkScan.ran => \A k \in DOMAIN visits : visits[k].kind # "url"
    /\ (bulkScan.ran /\ bulkScan.ok) =>
          /\ Range(PageImages) = Range(bulkScan.srcs) \ {0}
          /\ \A a, b \in DOMAIN PageImages :
                a < b => FirstAt(bulkScan.srcs, PageImages[a])
                           < FirstAt(bulkScan.srcs, PageImages[b])

\* The scan returned a source, another, and the first again; the catalog of
\* the two was returned.
C30_Witness ==
    /\ bulkScan = [ran |-> TRUE, ok |-> TRUE, srcs |-> <<2, 1, 2>>]
    /\ PageImages = <<2, 1>>
    /\ phase = "returned"

\* x put into the sorted list ps behind every page whose number is not
\* larger.
StableInsert(ps, x) ==
    LET n == Cardinality({k \in DOMAIN ps : ps[k].PageNumber <= x.PageNumber})
    IN  SubSeq(ps, 1, n) \o <<x>> \o SubSeq(ps, n + 1, Len(ps))

\* A stable sort by page number: insertion from the left.
RECURSIVE StableSort(_)
StableSort(ps) ==
    IF ps = <<>> THEN <<>>
    ELSE StableInsert(StableSort(SubSeq(ps, 1, Len(ps) - 1)), ps[Len(ps)])

\* The slice handed to sortPages: the pages in the order the goroutines
\* appended them.
PagesAsAppended ==
    [k \in DOMAIN arrival |->
        [PageNumber |-> arrival[k], ImageURL |-> NewsletterPath(PageFile(arrival[k]))]]

Merged == {r \in Requests : gpc[r] = "done" /\ Len(scrapedNewsletters[r]) > 0}

\* No goroutine is between building its map and its last append.
NoMergeUnderWay == \A r \in Requests : gpc[r] \notin {"make", "append"}

\* The ids the merged runs scraped.
MergedIDs == {scrapedNewsletters[r][k].ID : r \in Merged, k \in 1..1}

\* C32: once a scraped result is merged, the in-memory list has one record
\* per id, holds the scraped records, and still holds every record it had
\* whose id was not scraped.
C32_OneRecordPerId ==
    (NoMergeUnderWay /\ Merged # {}) =>
       /\ \A i, j \in DOMAIN memNewsletters :
             memNewsletters[i].ID = memNewsletters[j].ID => i = j
       /\ \A r \in Merged : Range(scrapedNewsletters[r]) \subseteq Range(memNewsletters)
       /\ \A rec \in Range(memStart) :
             rec.ID \notin MergedIDs => rec \in Range(memNewsletters)

\* C33: when the goroutines of all requests have ended, the in-memory list
\* holds the records of every run that was merged.
C33_NoLostMerge ==
    (\A r \in Requests : gpc[r] \in {"done", "failed"}) =>
       \A r \in Merged : Range(scrapedNewsletters[r]) \subseteq Range(memNewsletters)

\* The ids of the records of a list.
IDsOf(l) == {l[k].ID : k \in DOMAIN l}

\* C34: when a run has been merged and no goroutine is at work, a restart
\* would load from newsletters.json the ids the in-memory list holds.
C34_FileHoldsMemoryIds ==
    (Merged # {} /\ \A r \in Requests : gpc[r] \in {"none", "done", "failed"}) =>
       IDsOf(loadNewslettersFromFile(metaFile).val.recs) = IDsOf(memNewsletters)

\* The directories into which the catalogs of the run wrote files, each
\* with the positions of the catalogs that wrote into it.
WritersOf(d) == {k \in DOMAIN runLog : runLog[k].wrote /\ runLog[k].dir = d}

\* C35: the records one run of ScrapeAndDownload returns have pairwise
\* distinct ids, and no two catalogs of the run write files into the same
\* directory.
C35_DistinctIdsAndDirs ==
    rpc = "returned" =>
       /\ \A i, j \in DOMAIN runNewsletters :
             i # j => runNewsletters[i].ID # runNewsletters[j].ID
       /\ \A k \in DOMAIN runLog : runLog[k].wrote => WritersOf(runLog[k].dir) = {k}

\* C36: the cover path of the returned record refers to a cover file
\* downloaded in this run; when the catalog has no cover URL or the
\* download of the cover failed, the record carries no cover path.
C36_CoverPathOnlyForStoredCover ==
    phase = "returned" =>
       IF CoverJpg \in DOMAIN dfiles
       THEN newsletter.CoverImage = NewsletterPath(CoverJpg)
       ELSE newsletter.CoverImage = <<>>

\* The page tasks whose record is in the returned newsletter.
PagesReturned == {newsletter.Pages[k].PageNumber : k \in DOMAIN newsletter.Pages}

\* The page tasks whose download returned success: downloadImage has
\* stored the file of the page.
FetchSucceeded == {w \in DOMAIN wpc : PageFile(w) \in DOMAIN dfiles}

\* C37: the returned record has an entry for a page if and only if the
\* fetch of that page returned success, and the entry names the file of
\* the page; at no time does the shared slice hold an entry of a page
\* whose fetch has not succeeded.
C37_EntryIffFetchSucceeded ==
    /\ \A k \in DOMAIN pages : pages[k].PageNumber \in FetchSucceeded
    /\ phase = "returned" =>
          /\ PagesReturned = FetchSucceeded
          /\ \A k \in DOMAIN newsletter.Pages :
                newsletter.Pages[k].ImageURL =
                   NewsletterPath(PageFile(newsletter.Pages[k].PageNumber))

\* A record was returned for a catalog of which some downloads succeeded
\* and some failed.
C37_Witness ==
    /\ phase = "returned"
    /\ FetchSucceeded # {}
    /\ \E w \in DOMAIN wpc : w \notin FetchSucceeded /\ wpc[w] = "failed"

\* C38: a fetch that fails before the body is streamed, by a transport
\* error or a status that is not accepted, leaves the destination as it
\* was: no file is created, a file there keeps its content; nothing is
\* written before the status has been accepted.
C38_EarlyFailureLeavesFile ==
    /\ dpc \in {"get", "status"} => destFile = destBefore
    /\ (dpc = "returned" /\ dlErr \in {"get", "status"}) => destFile = destBefore

\* The server answered 404 for an image whose file was there from an
\* earlier download, and downloadImage has returned.
C38_Witness ==
    /\ dpc = "returned"
    /\ dlErr = "status"
    /\ resp.StatusCode = 404
    /\ destBefore = OldImage
    /\ destFile = OldImage

\* The goroutines that hold a slot of the pool: between sem <- struct{}{}
\* and the deferred <-sem.
SlotHolders == {w \in DOMAIN wpc : wpc[w] \in {"fetch", "hung", "fetched", "locked"}}

\* The download of a page task begins only from the wait for a slot, and
\* no task goes back to that wait.
AttemptedOnce ==
    \A w \in DOMAIN wpc :
       /\ (w \in DOMAIN wpc' /\ wpc'[w] = "wait") => wpc[w] = "wait"
       /\ (w \in DOMAIN wpc' /\ wpc'[w] = "fetch" /\ wpc[w] # "fetch") => wpc[w] = "wait"

\* Every goroutine of the download phase has ended, wg.Wait() returns.
PhaseOver ==
    /\ DOMAIN wpc = 1..PoolTasks
    /\ \A w \in DOMAIN wpc : wpc[w] \in {"done", "failed"}

\* C39: a download goroutine gives its slot back when it ends, on success
\* and on failure: the slots taken are those of the goroutines still at
\* work.  When every fetch returns, the download phase ends, with no slot
\* held and every page task attempted exactly once.
C39_SlotsReleasedAndPhaseEnds ==
    /\ [](sem = Cardinality(SlotHolders))
    /\ [][AttemptedOnce]_vars
    /\ <>(PhaseOver /\ sem = 0)

\* More page tasks than slots: the phase is over with every slot given
\* back, after two downloads failed and the others succeeded.
C39_Witness ==
    /\ PhaseOver
    /\ sem = 0
    /\ PoolTasks > SemCap
    /\ Cardinality({w \in DOMAIN wpc : wpc[w] = "failed"}) = 2
    /\ Cardinality({w \in DOMAIN wpc : wpc[w] = "done"}) = PoolTasks - 2

\* The catalogs newsletters.json holds: what main would load from it.
FileCatalogs(f) == loadNewslettersFromFile(f).val.recs

\* C40: while the runs that have returned yielded no catalog, the known
\* catalogs are those of the start, in the global slice and in the file
\* newsletters.json.
C40_EmptyRunChangesNothing ==
    (\A r \in Requests : scrapedNewsletters[r] = <<>>) =>
       /\ memNewsletters = memStart
       /\ FileCatalogs(metaFile) = FileCatalogs(metaBefore)

====
